---- MODULE Spec2Model ----
(***************************************************************************)
(* A model of the RetroCanvas physics core: Vector, GameMath, PhysicsNode, *)
(* PhysicsConnection, SpatialGrid and the Physics update loop.             *)
(*                                                                         *)
(* Numbers.  A JavaScript number is modelled as a pair <<n, d>>:           *)
(*   d > 0          the rational n/d in lowest terms,                      *)
(*   <<0, 0>>       NaN,                                                   *)
(*   <<1, 0>>       +Infinity,   <<-1, 0>>  -Infinity.                     *)
(* Arithmetic is exact as long as the denominator of a result stays within *)
(* Precision; a result with a larger denominator is rounded to the nearest *)
(* multiple of 1/Precision (the counterpart of floating-point rounding).   *)
(* Math.sqrt is exact on squares of rationals and rounded otherwise.       *)
(***************************************************************************)
EXTENDS Integers, Sequences, FiniteSets, TLC

\* Resolution of the rounded arithmetic: results are kept exact while their
\* denominator is at most Precision.
Precision == 500

----------------------------------------------------------------------------
\* Numbers

NaN == <<0, 0>>
PosInf == <<1, 0>>
NegInf == <<-1, 0>>
Zero == <<0, 1>>
One == <<1, 1>>

IAbs(i) == IF i < 0 THEN -i ELSE i
ISgn(i) == IF i < 0 THEN -1 ELSE IF i > 0 THEN 1 ELSE 0

RECURSIVE GCD(_, _)
GCD(a, b) == IF b = 0 THEN a ELSE GCD(b, a % b)

\* n/d for d > 0 and g the greatest common divisor of |n| and d.
Lowest(n, d, g) == <<n \div g, d \div g>>

\* The number n/d for integers n and d (d = 0 gives NaN or an infinity).
Norm(n, d) ==
    IF d = 0 THEN <<ISgn(n), 0>>
    ELSE IF d < 0 THEN Lowest(-n, -d, GCD(IAbs(n), -d))
    ELSE Lowest(n, d, GCD(IAbs(n), d))

\* The pairs that stand for numbers.
Number == Int \X Int

\* An integer as a number.
R(i) == <<i, 1>>
\* The fraction n/d as a number.
Frac[n \in Int, d \in Int] == Norm(n, d)

IsNaN(a) == a[2] = 0 /\ a[1] = 0
IsInf(a) == a[2] = 0 /\ a[1] # 0
IsFinite(a) == a[2] > 0

\* q + r/d, 0 <= r < d, to the nearest multiple of 1/Precision.
Nearest(q, r, d) == Norm(q * Precision + (2 * r * Precision + d) \div (2 * d), Precision)

\* n/d with both scaled down by s, so that the products of Nearest stay
\* within TLC's integers for a very large denominator.
Scaled(n, d, s) == Nearest(n \div d, (n % d) \div s, d \div s)

\* Rounding of a finite number to the resolution of the arithmetic: the
\* nearest multiple of 1/Precision.
Round(a) ==
    IF a[2] <= Precision THEN a ELSE Scaled(a[1], a[2], (a[2] \div 1000000) + 1)

\* The rounded number n/d.
Num(n, d) == Round(Norm(n, d))

RNeg(a) == <<-a[1], a[2]>>

\* a + b when one of them is NaN or an infinity.
AddSpecial(a, b) ==
    IF (a[2] = 0 /\ a[1] = 0) \/ (b[2] = 0 /\ b[1] = 0) THEN NaN
    ELSE IF a[2] = 0 /\ b[2] = 0 THEN (IF a = b THEN a ELSE NaN)
    ELSE IF a[2] = 0 THEN a
    ELSE b

\* a + b for finite a and b, g the greatest common divisor of the
\* denominators.
AddOver(a, b, g) ==
    Num(a[1] * (b[2] \div g) + b[1] * (a[2] \div g), (a[2] \div g) * b[2])

RAdd[a \in Number, b \in Number] ==
    IF a[2] = 0 \/ b[2] = 0 THEN AddSpecial(a, b) ELSE AddOver(a, b, GCD(a[2], b[2]))

RSub[a \in Number, b \in Number] == RAdd[a, <<-b[1], b[2]>>]

RMul[a \in Number, b \in Number] ==
    IF a[2] = 0 \/ b[2] = 0
    THEN (IF a[1] = 0 \/ b[1] = 0 THEN NaN ELSE <<ISgn(a[1]) * ISgn(b[1]), 0>>)
    ELSE Num(a[1] * b[1], a[2] * b[2])

RDiv[a \in Number, b \in Number] ==
    IF (a[2] = 0 /\ a[1] = 0) \/ (b[2] = 0 /\ b[1] = 0) THEN NaN
    ELSE IF b[2] = 0 THEN (IF a[2] = 0 THEN NaN ELSE Zero)
    ELSE IF a[2] = 0 THEN (IF b[1] < 0 THEN <<-a[1], 0>> ELSE a)
    ELSE IF b[1] = 0 THEN <<ISgn(a[1]), 0>>
    ELSE Num(a[1] * b[2], a[2] * b[1])

\* a < b, false when either is NaN.
RLt[a \in Number, b \in Number] ==
    IF a[2] = 0 \/ b[2] = 0
    THEN a # NaN /\ b # NaN /\ a # b /\ (a = NegInf \/ b = PosInf)
    ELSE a[1] * b[2] < b[1] * a[2]

\* a === b on numbers: NaN equals nothing.
REq(a, b) == a = b /\ (a[2] # 0 \/ a[1] # 0)
RLe[a \in Number, b \in Number] == RLt[a, b] \/ REq(a, b)

RGt[a \in Number, b \in Number] == RLt[b, a]

RGe[a \in Number, b \in Number] == RLt[b, a] \/ REq(a, b)

\* Math.abs
RAbs(a) == <<IAbs(a[1]), a[2]>>

\* Math.max and Math.min: NaN if either argument is NaN.
RMax[a \in Number, b \in Number] ==
    IF (a[2] = 0 /\ a[1] = 0) \/ (b[2] = 0 /\ b[1] = 0) THEN NaN
    ELSE IF RLt[a, b] THEN b ELSE a

RMin[a \in Number, b \in Number] ==
    IF (a[2] = 0 /\ a[1] = 0) \/ (b[2] = 0 /\ b[1] = 0) THEN NaN
    ELSE IF RLt[b, a] THEN b ELSE a

\* Math.floor
Floor(a) == IF a[2] > 0 THEN <<a[1] \div a[2], 1>> ELSE a

\* Math.ceil
Ceil(a) == IF a[2] > 0 THEN <<-((-a[1]) \div a[2]), 1>> ELSE a

\* The ~~ operator (ToInt32): truncation towards zero, with NaN and the
\* infinities mapped to 0.  The quotients of the model stay far below 2^31,
\* where ToInt32 starts to wrap.
ToInt32(a) ==
    IF a[2] <= 0 THEN Zero
    ELSE IF a[1] >= 0 THEN <<a[1] \div a[2], 1>> ELSE <<-((-a[1]) \div a[2]), 1>>

\* The largest integer whose square is at most n, for n >= 0.
RECURSIVE ISqrtIn(_, _, _)
ISqrtIn(n, lo, hi) ==
    IF lo >= hi THEN lo
    ELSE IF ((lo + hi + 1) \div 2) * ((lo + hi + 1) \div 2) <= n
    THEN ISqrtIn(n, (lo + hi + 1) \div 2, hi)
    ELSE ISqrtIn(n, lo, ((lo + hi + 1) \div 2) - 1)

ISqrt(n) == ISqrtIn(n, 0, IF n < 46340 THEN n ELSE 46340)

\* The common denominator of the two squares under the root, capped by the
\* resolution of the arithmetic.
RootDenominator(c, d, g) ==
    IF (c \div g) * d <= Precision THEN (c \div g) * d ELSE Precision

\* How much finer than 1/l an inexact root over the denominator l can be
\* taken, for operands up to mx.
Refinement(f1, f2) ==
    IF f1 < 1 \/ f2 < 1 THEN 1 ELSE IF f1 < f2 THEN f1 ELSE f2

\* The root of s2 / (l / k)^2, rounded down at the resolution l * f.
InexactRoot(s2, k, l, f) == Round(Norm(ISqrt(s2 * f * f) * k, l * f))

\* The root of s2 / (l / k)^2: rt / (l / k) when rt is the exact root of s2.
RootOf(s2, rt, k, l, mx) ==
    IF rt * rt = s2 THEN Norm(rt * k, l)
    ELSE InexactRoot(s2, k, l, Refinement(Precision \div l, 32000 \div (mx + 1)))

\* The root of (bx^2 + by^2) / (l / k)^2.
RootOfSquares(bx, by, k, l, mx) == RootOf(bx * bx + by * by, ISqrt(bx * bx + by * by), k, l, mx)

\* The operands ax / l and ay / l, coarsened by k when they are too large
\* for TLC's integers.
Coarsened(ax, ay, k, l, mx) == RootOfSquares(ax \div k, ay \div k, k, l, mx)

HypotOf(ax, ay, l, mx) == Coarsened(ax, ay, (mx \div 32000) + 1, l, mx)

HypotOver(x, y, l) ==
    HypotOf((IAbs(x[1]) * l) \div x[2], (IAbs(y[1]) * l) \div y[2], l,
            IF (IAbs(x[1]) * l) \div x[2] < (IAbs(y[1]) * l) \div y[2]
            THEN (IAbs(y[1]) * l) \div y[2] ELSE (IAbs(x[1]) * l) \div x[2])

\* Math.sqrt(x * x + y * y), as Vector.mag, Vector.distance and the node-node
\* resolution compute it: exact when the sum of squares is the square of a
\* rational, otherwise rounded down.  The squares are taken over a common
\* denominator; operands too large for TLC's integers are coarsened first.
Hypot[x \in Number, y \in Number] ==
    IF (x[2] = 0 /\ x[1] = 0) \/ (y[2] = 0 /\ y[1] = 0) THEN NaN
    ELSE IF x[2] = 0 \/ y[2] = 0 THEN PosInf
    ELSE HypotOver(x, y, RootDenominator(x[2], y[2], GCD(x[2], y[2])))

\* Math.pow(base, exponent) for the bases and exponents of the model: exact
\* when the friction coefficient is 0 or 1 or the exponent is 0 or 1; for an
\* exponent between 0 and 1 the chord 1 + exponent * (base - 1), which is
\* within the resolution of the arithmetic for a base close to 1.
Pow(base, exponent) ==
    IF IsNaN(exponent) THEN NaN
    ELSE IF exponent = Zero THEN One
    ELSE IF IsNaN(base) THEN NaN
    ELSE IF base = One THEN One
    ELSE IF exponent = One THEN base
    ELSE IF base = Zero THEN (IF RLt[Zero, exponent] THEN Zero ELSE PosInf)
    ELSE IF RLt[Zero, exponent] /\ RLt[exponent, One]
    THEN RAdd[One, RMul[exponent, RSub[base, One]]]
    ELSE base

\* Equality up to the rounding of a few operations.
ApproxEq(a, b) ==
    /\ IsFinite(a)
    /\ IsFinite(b)
    /\ RLe[RAbs(RSub[a, b]), Frac[4, Precision]]

\* GameMath.clamp(value, min, max)
Clamp(value, min, max) == RMax[min, RMin[max, value]]

----------------------------------------------------------------------------
\* Vector: a pair <<x, y>> of numbers

Vec(x, y) == <<x, y>>
VecI(i, j) == <<R(i), R(j)>>
VAdd(v, w) == <<RAdd[v[1], w[1]], RAdd[v[2], w[2]]>>
VSub(v, w) == <<RSub[v[1], w[1]], RSub[v[2], w[2]]>>
VMult(v, n) == <<RMul[v[1], n], RMul[v[2], n]>>
\* Vector.div(v, n) for n # 0 (the caller models the throw on n = 0).
VDiv(v, n) == <<RDiv[v[1], n], RDiv[v[2], n]>>
VMag(v) == Hypot[v[1], v[2]]
VDistance(v, w) == Hypot[RSub[w[1], v[1]], RSub[w[2], v[2]]]
VDot(v, w) == RAdd[RMul[v[1], w[1]], RMul[v[2], w[2]]]
\* Vector.normalize: a zero vector only logs a warning and is divided by 0.
VNormalize(v) == LET len == Hypot[v[1], v[2]] IN <<RDiv[v[1], len], RDiv[v[2], len]>>

VIsFinite(v) == IsFinite(v[1]) /\ IsFinite(v[2])

----------------------------------------------------------------------------
\* PhysicsNode and PhysicsConnection objects

\* parent = NoParent is the null parent.
NoParent == 0

\* new PhysicsNode(position, radius, mass, bounciness, airFriction,
\* surfaceFriction, locked, collider); maxVelocity keeps its default, Infinity.
\* (name, rotation and rotationSpeed are cosmetic and are not modelled.)
NewPhysicsNode(position, radius, mass, bounciness, airFriction, surfaceFriction, locked, collider) ==
    [ position |-> position,
      prevPosition |-> position,
      radius |-> radius,
      mass |-> mass,
      bounciness |-> Clamp(bounciness, Zero, One),
      airFriction |-> Clamp(airFriction, Zero, One),
      surfaceFriction |-> Clamp(surfaceFriction, Zero, One),
      forces |-> <<Zero, Zero>>,
      maxVelocityMagnitude |-> PosInf,
      locked |-> locked,
      collider |-> collider,
      parent |-> NoParent ]

\* new PhysicsConnection(node1, node2, restingDistance, collider): a resting
\* distance of 0 is replaced by the current distance of the two nodes.
NewPhysicsConnection(heap, node1, node2, restingDistance, collider) ==
    [ node1 |-> node1,
      node2 |-> node2,
      restingDistance |-> IF restingDistance = Zero \/ IsNaN(restingDistance)
                          THEN VDistance(heap[node1].position, heap[node2].position)
                          ELSE restingDistance,
      collider |-> collider,
      parent |-> NoParent ]

\* Solve with the whole deviation applied at once instead of half of it.
Solve_FullDeviation(heap, c) ==
    LET n1 == heap[c.node1]
        n2 == heap[c.node2]
        dir0 == VSub(n1.position, n2.position)
        dir == VNormalize(dir0)
        offset == RSub[VMag(dir0), c.restingDistance]
        totalMass == RAdd[n1.mass, n2.mass]
        w1 == RDiv[n2.mass, totalMass]
        w2 == RDiv[n1.mass, totalMass]
        offset1 == <<RMul[RMul[dir[1], offset], w2], RMul[RMul[dir[2], offset], w2]>>
        offset2 == <<RMul[RMul[dir[1], offset], w1], RMul[RMul[dir[2], offset], w1]>>
        heap1 == IF ~n1.locked
                 THEN [heap EXCEPT ![c.node1].position = VSub(@, offset1)]
                 ELSE heap
    IN  IF ~n2.locked
        THEN [heap1 EXCEPT ![c.node2].position = VAdd(@, offset2)]
        ELSE heap1

\* Solve without the locked test on node1.
Solve_IgnoresLock(heap, c) ==
    LET n1 == heap[c.node1]
        n2 == heap[c.node2]
        dir0 == VSub(n1.position, n2.position)
        dir == VNormalize(dir0)
        offset == RDiv[RSub[VMag(dir0), c.restingDistance], R(2)]
        totalMass == RAdd[n1.mass, n2.mass]
        w1 == RDiv[n2.mass, totalMass]
        w2 == RDiv[n1.mass, totalMass]
        offset1 == <<RMul[RMul[dir[1], offset], w2], RMul[RMul[dir[2], offset], w2]>>
        offset2 == <<RMul[RMul[dir[1], offset], w1], RMul[RMul[dir[2], offset], w1]>>
        heap1 == [heap EXCEPT ![c.node1].position = VSub(@, offset1)]
    IN  IF ~n2.locked
        THEN [heap1 EXCEPT ![c.node2].position = VAdd(@, offset2)]
        ELSE heap1

\* PhysicsConnection.solve() of connection c on the node objects of heap.
Solve(heap, c) ==
    LET n1 == heap[c.node1]
        n2 == heap[c.node2]
        dir0 == VSub(n1.position, n2.position)
        currentDistance == VMag(dir0)
        dir == VNormalize(dir0)
        deviation == RSub[currentDistance, c.restingDistance]
        offset == RDiv[deviation, R(2)]
        totalMass == RAdd[n1.mass, n2.mass]
        w1 == RDiv[n2.mass, totalMass]
        w2 == RDiv[n1.mass, totalMass]
        offset1 == <<RMul[RMul[dir[1], offset], w2], RMul[RMul[dir[2], offset], w2]>>
        offset2 == <<RMul[RMul[dir[1], offset], w1], RMul[RMul[dir[2], offset], w1]>>
        heap1 == IF ~n1.locked
                 THEN [heap EXCEPT ![c.node1].position = VSub(@, offset1)]
                 ELSE heap
    IN  IF ~n2.locked
        THEN [heap1 EXCEPT ![c.node2].position = VAdd(@, offset2)]
        ELSE heap1

----------------------------------------------------------------------------
\* SpatialGrid

\* An integer-valued number as a TLA+ integer.
AsInt(a) == a[1]
IsIndex(a, n) == IsFinite(a) /\ a[2] = 1 /\ a[1] >= 0 /\ a[1] < n

\* new SpatialGrid(cellSize, width, height), all three positive: the bucket
\* array has rows 0 .. rows-1, each with columns 0 .. columns-1.
NewSpatialGrid(cellSize, width, height) ==
    LET columns == AsInt(Ceil(RDiv[width, cellSize]))
        rows    == AsInt(Ceil(RDiv[height, cellSize]))
    IN  [ width |-> width,
          height |-> height,
          cellSize |-> cellSize,
          columns |-> columns,
          rows |-> rows,
          cells |-> [row \in 0 .. rows - 1 |-> [col \in 0 .. columns - 1 |-> <<>>]] ]

\* The column and the row insert() computes for a position.
InsertCol(g, position) ==
    Clamp(ToInt32(RDiv[position[1], g.cellSize]), Zero, ToInt32(RDiv[g.width, g.cellSize]))
InsertRow(g, position) ==
    Clamp(ToInt32(RDiv[position[2], g.cellSize]), Zero, ToInt32(RDiv[g.height, g.cellSize]))

\* this.#grid[row][col].push(node) raises a TypeError when this.#grid[row] or
\* this.#grid[row][col] is undefined.
InsertThrows(g, position) ==
    ~(IsIndex(InsertRow(g, position), g.rows) /\ IsIndex(InsertCol(g, position), g.columns))

\* SpatialGrid.insert(node) when it does not throw.
GridInsert(g, heap, id) ==
    LET row == AsInt(InsertRow(g, heap[id].position))
        col == AsInt(InsertCol(g, heap[id].position))
    IN  [g EXCEPT !.cells[row][col] = Append(@, id)]

\* SpatialGrid.clear()
GridClear(g) ==
    [g EXCEPT !.cells = [row \in 0 .. g.rows - 1 |-> [col \in 0 .. g.columns - 1 |-> <<>>]]]

\* The offsets of the 3x3 block in the order of the two nested loops
\* (i over rows outside, j over columns inside).
Block == << <<-1, -1>>, <<-1, 0>>, <<-1, 1>>, <<0, -1>>, <<0, 0>>, <<0, 1>>,
            <<1, -1>>, <<1, 0>>, <<1, 1>> >>

\* The bucket at (row, col) if both are in range, else nothing.
Bucket(g, row, col) ==
    IF IsIndex(row, g.rows) /\ IsIndex(col, g.columns)
    THEN g.cells[AsInt(row)][AsInt(col)]
    ELSE <<>>

\* The concatenated buckets of the 3x3 block around (row, col), from the
\* k-th offset on.
RECURSIVE BlockNodes(_, _, _, _)
BlockNodes(g, row, col, k) ==
    IF k > Len(Block) THEN <<>>
    ELSE Bucket(g, RAdd[row, R(Block[k][1])], RAdd[col, R(Block[k][2])])
             \o BlockNodes(g, row, col, k + 1)

\* SpatialGrid.getNearby(node)
GetNearby(g, heap, id) ==
    LET col == Floor(RDiv[heap[id].position[1], g.cellSize])
        row == Floor(RDiv[heap[id].position[2], g.cellSize])
    IN  BlockNodes(g, row, col, 1)

\* The loop counter value above which the cell traversal gives up.
StepCap == 1000

\* The local variables of #getCellsForConnection before its loop.
WalkStart(g, start, end) ==
    LET x0 == Floor(RDiv[start[1], g.cellSize])
        y0 == Floor(RDiv[start[2], g.cellSize])
        x1 == Floor(RDiv[end[1], g.cellSize])
        y1 == Floor(RDiv[end[2], g.cellSize])
        dx == RAbs(RSub[x1, x0])
        dy == RAbs(RSub[y1, y0])
    IN  [ x0 |-> x0, y0 |-> y0, x1 |-> x1, y1 |-> y1, dx |-> dx, dy |-> dy,
          sx |-> IF RLt[x0, x1] THEN R(1) ELSE R(-1),
          sy |-> IF RLt[y0, y1] THEN R(1) ELSE R(-1),
          err |-> RSub[dx, dy],
          counter |-> 0,
          cells |-> <<>>,
          running |-> TRUE ]

\* One iteration of a loop that never gives up.
WalkIter_NoCap(w) ==
    LET cells == Append(w.cells, [col |-> w.x0, row |-> w.y0])
    IN  IF REq(w.x0, w.x1) /\ REq(w.y0, w.y1)
        THEN [w EXCEPT !.cells = cells, !.running = FALSE]
        ELSE [w EXCEPT !.cells = cells, !.counter = w.counter + 1]

\* One iteration of the while (true) loop of #getCellsForConnection.
WalkIter(w) ==
    LET cells == Append(w.cells, [col |-> w.x0, row |-> w.y0])
        e2    == RMul[R(2), w.err]
        stepX == RGt[e2, RNeg(w.dy)]
        err1  == IF stepX THEN RSub[w.err, w.dy] ELSE w.err
        x0    == IF stepX THEN RAdd[w.x0, w.sx] ELSE w.x0
        stepY == RLt[e2, w.dx]
        err2  == IF stepY THEN RAdd[err1, w.dx] ELSE err1
        y0    == IF stepY THEN RAdd[w.y0, w.sy] ELSE w.y0
    IN  IF REq(w.x0, w.x1) /\ REq(w.y0, w.y1)
        THEN [w EXCEPT !.cells = cells, !.running = FALSE]
        ELSE [w EXCEPT !.cells = cells, !.x0 = x0, !.y0 = y0, !.err = err2,
                       !.counter = w.counter + 1,
                       !.running = ~(w.counter + 1 > StepCap)]

\* The loop run to its end.
RECURSIVE WalkRun(_)
WalkRun(w) == IF w.running THEN WalkRun(WalkIter(w)) ELSE w

\* SpatialGrid.#getCellsForConnection(startNode, endNode)
GetCellsForConnection(g, start, end) == WalkRun(WalkStart(g, start, end)).cells

\* [...new Set(nodes)]: the first occurrence of every element, in order.
RECURSIVE Dedupe(_, _)
Dedupe(seq, seen) ==
    IF seq = <<>> THEN <<>>
    ELSE IF Head(seq) \in seen THEN Dedupe(Tail(seq), seen)
    ELSE <<Head(seq)>> \o Dedupe(Tail(seq), seen \cup {Head(seq)})

\* The elements of a sequence.
Range(seq) == {seq[i] : i \in DOMAIN seq}

\* a followed by the elements of b that are not in a.
Merge(a, b) == a \o SelectSeq(b, LAMBDA x : x \notin Range(a))

\* The nodes of the 3x3 blocks around cells[lo .. hi], every node once, in
\* the order of first occurrence (computed by halving the range).
RECURSIVE CellsNodes(_, _, _, _)
CellsNodes(g, cells, lo, hi) ==
    IF lo > hi THEN <<>>
    ELSE IF lo = hi THEN Dedupe(BlockNodes(g, cells[lo].row, cells[lo].col, 1), {})
    ELSE LET mid == (lo + hi) \div 2
         IN  Merge(CellsNodes(g, cells, lo, mid), CellsNodes(g, cells, mid + 1, hi))

\* Only the bucket of the first cell of the path is collected.
NodesOfCells_FirstCellOnly(g, cells) ==
    IF cells = <<>> THEN <<>> ELSE Dedupe(Bucket(g, cells[1].row, cells[1].col), {})

\* The part of getNodesForConnection after the cells are known: the buckets
\* of the 3x3 block of every cell, then [...new Set(nodes)].
NodesOfCells(g, cells) == CellsNodes(g, cells, 1, Len(cells))

\* SpatialGrid.getNodesForConnection(startNode, endNode)
GetNodesForConnection(g, heap, startNode, endNode) ==
    NodesOfCells(g, GetCellsForConnection(g, heap[startNode].position, heap[endNode].position))

----------------------------------------------------------------------------
\* PhysicsNode.update

\* Vector.div raises 'Cannot divide by zero.' for the node's mass or for
\* deltaTime; a locked node returns before either division.
NodeUpdateThrows(n, deltaTime) ==
    ~n.locked /\ (REq(n.mass, Zero) \/ REq(deltaTime, Zero))

\* The node as an update that raises leaves it: gravity has been added to
\* its forces, which are reset only at the end of update.
NodeUpdateRaised(n, gravity) ==
    [n EXCEPT !.forces = VAdd(@, VMult(VMult(gravity, n.mass), R(400)))]

\* PhysicsNode.#clampVelocity(maxVelocity, deltaTime), deltaTime # 0
ClampVelocity(n, maxVelocity, deltaTime) ==
    LET displacement == VSub(n.position, n.prevPosition)
        effectiveVelocity == VDiv(displacement, deltaTime)
        magnitude == VMag(effectiveVelocity)
    IN  IF RGt[magnitude, maxVelocity]
        THEN VMult(VMult(effectiveVelocity, RDiv[maxVelocity, magnitude]), deltaTime)
        ELSE displacement

\* PhysicsNode.update(deltaTime, gravity) when it does not throw.  (The
\* factors 0.5, deltaTime and deltaTime are applied to the acceleration one
\* at a time: their product alone is below the resolution of the arithmetic
\* for a small deltaTime.)
NodeUpdate(n, deltaTime, gravity) ==
    IF n.locked THEN [n EXCEPT !.forces = <<Zero, Zero>>]
    ELSE LET gravityForce == VMult(gravity, n.mass)
             forces == VAdd(n.forces, VMult(gravityForce, R(400)))
             acceleration == VDiv(forces, n.mass)
             accelerationDisplacement ==
                 VMult(VMult(VMult(acceleration, Frac[1, 2]), deltaTime), deltaTime)
             displacement == ClampVelocity(n, n.maxVelocityMagnitude, deltaTime)
             adjustedAirFriction == Pow(n.airFriction, deltaTime)
             slowed == <<RMul[displacement[1], adjustedAirFriction],
                         RMul[displacement[2], adjustedAirFriction]>>
             newPos == VAdd(VAdd(n.position, slowed), accelerationDisplacement)
         IN  [n EXCEPT !.prevPosition = n.position,
                       !.position = newPos,
                       !.forces = <<Zero, Zero>>]

----------------------------------------------------------------------------
\* Physics

\* The null connection.
NoConnection == 0

\* new Physics(areaWidth, areaHeight, gravity, subSteps, responseCoef,
\* max_delta) together with the objects that exist next to it: none yet.
NewPhysics(areaWidth, areaHeight, gravity, subSteps, responseCoef, max_delta) ==
    [ node |-> <<>>,
      conn |-> <<>>,
      object |-> <<>>,
      physics |-> [ nodes |-> <<>>,
                    connections |-> <<>>,
                    areaWidth |-> areaWidth,
                    areaHeight |-> areaHeight,
                    gravity |-> gravity,
                    MAX_DELTA |-> max_delta,
                    subSteps |-> ToInt32(subSteps),
                    responseCoef |-> Clamp(responseCoef, Zero, One),
                    biggestNodeForGrid |-> R(10) ],
      grid |-> NewSpatialGrid(RMul[R(10), R(2)], RMul[areaWidth, One], RMul[areaHeight, One]) ]

\* The heap with one more object; its identity is the new length.
Alloc(heap, obj) == Append(heap, obj)

\* "If a node bigger than an optimization grid cell is added": the grid is
\* replaced by an empty one with larger cells.
FitGrid(w, radius) ==
    IF RGt[radius, w.physics.biggestNodeForGrid]
    THEN [w EXCEPT !.physics.biggestNodeForGrid = radius,
                   !.grid = NewSpatialGrid(RMul[radius, R(2)],
                                           RMul[w.physics.areaWidth, One],
                                           RMul[w.physics.areaHeight, One])]
    ELSE w

\* addPhysicsNode without the push onto the node list.
AddPhysicsNode_NoPush(w, id) == FitGrid(w, w.node[id].radius)

\* Physics.addPhysicsNode(node)
AddPhysicsNode(w, id) ==
    [FitGrid(w, w.node[id].radius) EXCEPT !.physics.nodes = Append(@, id)]

\* Physics.makePhysicsNode(position, radius, mass, bounciness, airFriction,
\* surfaceFriction, locked, collider)
MakePhysicsNode(w, position, radius, mass, bounciness, airFriction, surfaceFriction, locked, collider) ==
    LET fitted == FitGrid(w, radius)
        n == NewPhysicsNode(position, radius, mass, bounciness, airFriction,
                            surfaceFriction, locked, collider)
    IN  [fitted EXCEPT !.node = Alloc(@, n),
                       !.physics.nodes = Append(@, Len(w.node) + 1)]

\* Physics.addPhysicsConnection(connection)
AddPhysicsConnection(w, cid) ==
    [w EXCEPT !.physics.connections = Append(@, cid)]

\* Physics.makePhysicsConnection(node1, node2, restingDistance, collider)
MakePhysicsConnection(w, node1, node2, restingDistance, collider) ==
    [w EXCEPT !.conn = Alloc(@, NewPhysicsConnection(w.node, node1, node2, restingDistance, collider)),
              !.physics.connections = Append(@, Len(w.conn) + 1)]

\* this.#nodes.forEach(node => this.#physicsSimulation.addPhysicsNode(node))
RECURSIVE AddNodes(_, _, _)
AddNodes(w, ids, k) ==
    IF k > Len(ids) THEN w ELSE AddNodes(AddPhysicsNode(w, ids[k]), ids, k + 1)

\* this.#connections.forEach(connection => ...addPhysicsConnection(connection))
\* from the k-th connection on: each call appends its connection.
AddConnections(w, cids, k) ==
    [w EXCEPT !.physics.connections = @ \o SubSeq(cids, k, Len(cids))]

\* new PhysicsObject(physicsSimulation, nodes, connections, name, solidShape)
\* for nodes and connections that exist (at least two nodes): the object
\* becomes their parent and registers them with the simulation.
NewPhysicsObject(w, nodes, connections, solidShape) ==
    LET oid == Len(w.object) + 1
        obj == [ nodes |-> nodes,
                 connections |-> connections,
                 solidShape |-> solidShape,
                 referenceVector |-> VSub(w.node[nodes[2]].position, w.node[nodes[1]].position) ]
        adopted == [w EXCEPT
                      !.object = Alloc(@, obj),
                      !.node = [id \in DOMAIN w.node |->
                                   IF id \in Range(nodes) THEN [w.node[id] EXCEPT !.parent = oid]
                                   ELSE w.node[id]],
                      !.conn = [cid \in DOMAIN w.conn |->
                                   IF cid \in Range(connections) THEN [w.conn[cid] EXCEPT !.parent = oid]
                                   ELSE w.conn[cid]]]
    IN  AddConnections(AddNodes(adopted, nodes, 1), connections, 1)

\* new PhysicsRect(physicsSimulation, position, width, height, rectName,
\* radius) with the defaults for the other parameters: four unlocked corner
\* nodes, the four sides and two diagonals that are no colliders, as a solid
\* shape.
RectNodes(w, position, width, height, radius) ==
    LET halfWidth == RDiv[width, R(2)]
        halfHeight == RDiv[height, R(2)]
        corner(x, y) == NewPhysicsNode(<<x, y>>, radius, One, Zero, Frac[999, 1000], Frac[3, 4],
                                       FALSE, TRUE)
    IN  w.node \o
        << corner(RSub[position[1], halfWidth], RSub[position[2], halfHeight]),
           corner(RAdd[position[1], halfWidth], RSub[position[2], halfHeight]),
           corner(RSub[position[1], halfWidth], RAdd[position[2], halfHeight]),
           corner(RAdd[position[1], halfWidth], RAdd[position[2], halfHeight]) >>
RectConnections(w, heap, width, height) ==
    LET topLeft == Len(w.node) + 1
        topRight == Len(w.node) + 2
        bottomLeft == Len(w.node) + 3
        bottomRight == Len(w.node) + 4
    IN  w.conn \o
        << NewPhysicsConnection(heap, topLeft, topRight, width, TRUE),
           NewPhysicsConnection(heap, bottomLeft, bottomRight, width, TRUE),
           NewPhysicsConnection(heap, topLeft, bottomLeft, height, TRUE),
           NewPhysicsConnection(heap, topRight, bottomRight, height, TRUE),
           NewPhysicsConnection(heap, topLeft, bottomRight, Hypot[width, height], FALSE),
           NewPhysicsConnection(heap, topRight, bottomLeft, Hypot[width, height], FALSE) >>
NewPhysicsRect(w, position, width, height, radius) ==
    NewPhysicsObject(
        [w EXCEPT !.node = RectNodes(w, position, width, height, radius),
                  !.conn = RectConnections(w, RectNodes(w, position, width, height, radius),
                                           width, height)],
        [i \in 1 .. 4 |-> Len(w.node) + i],
        [i \in 1 .. 6 |-> Len(w.conn) + i],
        TRUE)

\* Math.cos(i * 2 * Math.PI / corners) and Math.sin(i * 2 * Math.PI / corners)
\* for corners in 3 .. 10 and i in 0 .. corners - 1, in thousandths.
CosTable ==
    [corners \in 3 .. 10 |->
      <<
         << 1000, -500, -500 >>,
         << 1000, 0, -1000, 0 >>,
         << 1000, 309, -809, -809, 309 >>,
         << 1000, 500, -500, -1000, -500, 500 >>,
         << 1000, 623, -223, -901, -901, -223, 623 >>,
         << 1000, 707, 0, -707, -1000, -707, 0, 707 >>,
         << 1000, 766, 174, -500, -940, -940, -500, 174, 766 >>,
         << 1000, 809, 309, -309, -809, -1000, -809, -309, 309, 809 >>
      >>[corners - 2]]
SinTable ==
    [corners \in 3 .. 10 |->
      <<
         << 0, 866, -866 >>,
         << 0, 1000, 0, -1000 >>,
         << 0, 951, 588, -588, -951 >>,
         << 0, 866, 866, 0, -866, -866 >>,
         << 0, 782, 975, 434, -434, -975, -782 >>,
         << 0, 707, 1000, 707, 0, -707, -1000, -707 >>,
         << 0, 643, 985, 866, 342, -342, -866, -985, -643 >>,
         << 0, 588, 951, 951, 588, 0, -588, -951, -951, -588 >>
      >>[corners - 2]]

\* new PhysicsPolygon(physicsSimulation, position, outerRadius, corners,
\* polygonName, nodeRadius, ..., collider) for a whole number of corners in
\* 3 .. 10 and the defaults for the other parameters: the corner nodes on the
\* circle, ...
PolygonNodes(w, position, outerRadius, corners, nodeRadius, collider) ==
    w.node \o
    [i \in 1 .. corners |->
        NewPhysicsNode(<< RAdd[position[1], RMul[outerRadius, Frac[CosTable[corners][i], 1000]]],
                          RAdd[position[2], RMul[outerRadius, Frac[SinTable[corners][i], 1000]]] >>,
                       nodeRadius, One, Zero, Frac[999, 1000], Frac[3, 4], FALSE, collider)]

\* The i and j (both counted from 0) of the m-th iteration of the loops
\* for (i = 0; i < corners; i++) for (j = i + 1; j < corners; j++).
PolygonPair(corners, m) ==
    CHOOSE p \in (0 .. corners - 1) \X (0 .. corners - 1) :
        /\ p[1] < p[2]
        /\ p[1] * corners - (p[1] * (p[1] + 1)) \div 2 + p[2] - p[1] = m

\* The connection that is a collider only when j is i + 1: the chain of the
\* corners without the edge that closes it.
PolygonConnection_OpenChain(heap, base, corners, i, j) ==
    NewPhysicsConnection(heap, base + i + 1, base + j + 1,
                         VDistance(heap[base + i + 1].position, heap[base + j + 1].position),
                         j = i + 1)

\* ... a connection for every i < j, a collider unless
\* j !== i + 1 && j !== (i - 1 + corners) % corners, ...
PolygonConnection(heap, base, corners, i, j) ==
    NewPhysicsConnection(heap, base + i + 1, base + j + 1,
                         VDistance(heap[base + i + 1].position, heap[base + j + 1].position),
                         ~(j # i + 1 /\ j # (i - 1 + corners) % corners))
PolygonConnections(w, heap, corners) ==
    w.conn \o
    [m \in 1 .. (corners * (corners - 1)) \div 2 |->
        PolygonConnection(heap, Len(w.node), corners,
                          PolygonPair(corners, m)[1], PolygonPair(corners, m)[2])]

\* ... and the object that registers them, as a solid shape.
NewPhysicsPolygon(w, position, outerRadius, corners, nodeRadius, collider) ==
    NewPhysicsObject(
        [w EXCEPT !.node = PolygonNodes(w, position, outerRadius, corners, nodeRadius, collider),
                  !.conn = PolygonConnections(
                               w, PolygonNodes(w, position, outerRadius, corners, nodeRadius, collider),
                               corners)],
        [i \in 1 .. corners |-> Len(w.node) + i],
        [i \in 1 .. (corners * (corners - 1)) \div 2 |-> Len(w.conn) + i],
        TRUE)

\* Array.indexOf: the index of the first occurrence, 0 when there is none.
IndexOf(seq, x) ==
    IF x \in Range(seq)
    THEN CHOOSE i \in DOMAIN seq : seq[i] = x /\ \A j \in 1 .. i - 1 : seq[j] # x
    ELSE 0

\* Array.splice(index, 1)
Splice(seq, i) == SubSeq(seq, 1, i - 1) \o SubSeq(seq, i + 1, Len(seq))

\* Physics.removePhysicsNode(node): the first occurrence is removed; a node
\* that is not in the list raises.
RemovePhysicsNode(w, id) ==
    IF IndexOf(w.physics.nodes, id) # 0
    THEN [w |-> [w EXCEPT !.physics.nodes = Splice(@, IndexOf(w.physics.nodes, id))],
          threw |-> FALSE]
    ELSE [w |-> w, threw |-> TRUE]

\* Physics.removePhysicsConnection(connection)
RemovePhysicsConnection(w, cid) ==
    IF IndexOf(w.physics.connections, cid) # 0
    THEN [w |-> [w EXCEPT !.physics.connections = Splice(@, IndexOf(w.physics.connections, cid))],
          threw |-> FALSE]
    ELSE [w |-> w, threw |-> TRUE]

\* The two loops of removeFromSimulation, from the k-th entry on; a remove
\* that raises ends the call.
RECURSIVE RemoveConnections(_, _, _)
RemoveConnections(w, cids, k) ==
    IF k > Len(cids) THEN [w |-> w, threw |-> FALSE]
    ELSE IF RemovePhysicsConnection(w, cids[k]).threw THEN [w |-> w, threw |-> TRUE]
    ELSE RemoveConnections(RemovePhysicsConnection(w, cids[k]).w, cids, k + 1)

RECURSIVE RemoveNodes(_, _, _)
RemoveNodes(w, ids, k) ==
    IF k > Len(ids) THEN [w |-> w, threw |-> FALSE]
    ELSE IF RemovePhysicsNode(w, ids[k]).threw THEN [w |-> w, threw |-> TRUE]
    ELSE RemoveNodes(RemovePhysicsNode(w, ids[k]).w, ids, k + 1)

\* PhysicsObject.removeFromSimulation() of object oid
RemoveFromSimulation(w, oid) ==
    IF RemoveNodes(w, w.object[oid].nodes, 1).threw
    THEN RemoveNodes(w, w.object[oid].nodes, 1)
    ELSE RemoveConnections(RemoveNodes(w, w.object[oid].nodes, 1).w,
                           w.object[oid].connections, 1)

\* The first loop of a sub-step of Physics.update: node.update for every
\* registered node from the k-th on, unless deltaTime > MAX_DELTA skips it.
\* An update that throws ends the loop; visited counts the completed ones.
RECURSIVE IntegrateNodes(_, _, _, _, _, _)
IntegrateNodes(heap, ids, k, skip, deltaTime, gravity) ==
    IF skip THEN [heap |-> heap, threw |-> FALSE, visited |-> 0]
    ELSE IF k > Len(ids) THEN [heap |-> heap, threw |-> FALSE, visited |-> Len(ids)]
    ELSE IF NodeUpdateThrows(heap[ids[k]], deltaTime)
    THEN [heap |-> [heap EXCEPT ![ids[k]] = NodeUpdateRaised(@, gravity)],
          threw |-> TRUE, visited |-> k - 1]
    ELSE IntegrateNodes([heap EXCEPT ![ids[k]] = NodeUpdate(@, deltaTime, gravity)],
                        ids, k + 1, skip, deltaTime, gravity)

\* Physics.#resolveConnections(), from the k-th connection on
RECURSIVE ResolveConnections(_, _, _, _)
ResolveConnections(heap, connHeap, cids, k) ==
    IF k > Len(cids) THEN heap
    ELSE ResolveConnections(Solve(heap, connHeap[cids[k]]), connHeap, cids, k + 1)

\* for (let node of this.#nodes) this.#grid.insert(node), from the k-th node
\* on; an insert that throws ends the loop.
RECURSIVE InsertNodes(_, _, _, _)
InsertNodes(g, heap, ids, k) ==
    IF k > Len(ids) THEN [grid |-> g, threw |-> FALSE, visited |-> Len(ids)]
    ELSE IF InsertThrows(g, heap[ids[k]].position)
    THEN [grid |-> g, threw |-> TRUE, visited |-> k - 1]
    ELSE InsertNodes(GridInsert(g, heap, ids[k]), heap, ids, k + 1)

\* Physics.#checkCollisionNodeNode(node1, node2)
CheckCollisionNodeNode(n1, n2) ==
    /\ n1.collider
    /\ n2.collider
    /\ RLe[VDistance(n1.position, n2.position), RAdd[n1.radius, n2.radius]]

\* Physics.#resolveCollisionNodeNode(node1, node2) on the nodes a and b of
\* heap.  (The onCollision hooks of both nodes do nothing unless overwritten.)
ResolveCollisionNodeNode(heap, a, b, physics) ==
    LET n1 == heap[a]
        n2 == heap[b]
        difference == VSub(n1.position, n2.position)
        minDist == RAdd[n1.radius, n2.radius]
        distance == Clamp(Hypot[difference[1], difference[2]], One,
                          RAdd[physics.areaWidth, physics.areaHeight])
        n == VDiv(difference, distance)
        avgBounciness == RMul[RDiv[RAdd[n1.bounciness, n2.bounciness], R(2)], R(10)]
        delta == RMul[RMul[RMul[Frac[1, 2], physics.responseCoef], RSub[distance, minDist]],
                      RAdd[One, avgBounciness]]
        massRatio1 == RDiv[n1.mass, RAdd[n1.mass, n2.mass]]
        massRatio2 == RDiv[n2.mass, RAdd[n1.mass, n2.mass]]
    IN  IF ~n1.collider \/ ~n2.collider THEN heap
        ELSE IF n1.locked /\ n2.locked THEN heap
        ELSE IF n1.locked
        THEN [heap EXCEPT ![b].position = VAdd(@, VMult(n, delta))]
        ELSE IF n2.locked
        THEN [heap EXCEPT ![a].position = VSub(@, VMult(n, delta))]
        ELSE LET moved == [heap EXCEPT ![a].position = VSub(@, VMult(n, RMul[massRatio2, delta]))]
             IN  [moved EXCEPT ![b].position = VAdd(@, VMult(n, RMul[massRatio1, delta]))]

\* The ground test of #checkCollisionWithBoundary on the locals
\* s = [position, prevPosition, velocity] of node n.
HitGround(s, n, areaHeight, friction) ==
    IF RGe[RAdd[s.position[2], n.radius], areaHeight]
    THEN LET overlap == RSub[RAdd[s.position[2], n.radius], areaHeight]
             position == <<s.position[1],
                           RSub[s.position[2], RMul[overlap, RAdd[One, n.bounciness]]]>>
             velocity == <<RMul[s.velocity[1], friction],
                           RMul[s.velocity[2], RNeg(n.bounciness)]>>
         IN  [position |-> position, velocity |-> velocity,
              prevPosition |-> VSub(position, velocity)]
    ELSE s

\* The ceiling test.
HitCeiling(s, n) ==
    IF RLe[RSub[s.position[2], n.radius], Zero]
    THEN LET overlap == RSub[n.radius, s.position[2]]
             position == <<s.position[1],
                           RAdd[s.position[2], RMul[overlap, RAdd[One, n.bounciness]]]>>
             velocity == <<s.velocity[1], RMul[s.velocity[2], RNeg(n.bounciness)]>>
         IN  [position |-> position, velocity |-> velocity,
              prevPosition |-> VSub(position, velocity)]
    ELSE s

\* The left boundary test without its correction.
HitLeft_NoCorrection(s, n) == s

\* The left boundary test.
HitLeft(s, n) ==
    IF RLe[RSub[s.position[1], n.radius], Zero]
    THEN LET overlap == RSub[n.radius, s.position[1]]
             position == <<RAdd[s.position[1], RMul[overlap, RAdd[One, n.bounciness]]],
                           s.position[2]>>
             velocity == <<RMul[s.velocity[1], RNeg(n.bounciness)], s.velocity[2]>>
         IN  [position |-> position, velocity |-> velocity,
              prevPosition |-> VSub(position, velocity)]
    ELSE s

\* The right boundary test.
HitRight(s, n, areaWidth) ==
    IF RGe[RAdd[s.position[1], n.radius], areaWidth]
    THEN LET overlap == RSub[RAdd[s.position[1], n.radius], areaWidth]
             position == <<RSub[s.position[1], RMul[overlap, RAdd[One, n.bounciness]]],
                           s.position[2]>>
             velocity == <<RMul[s.velocity[1], RNeg(n.bounciness)], s.velocity[2]>>
         IN  [position |-> position, velocity |-> velocity,
              prevPosition |-> VSub(position, velocity)]
    ELSE s

\* Physics.#checkCollisionWithBoundary(node, deltaTime): ground, ceiling,
\* left and right in this order, each on the result of the one before.
CheckCollisionWithBoundary(n, deltaTime, physics) ==
    LET friction == Pow(n.surfaceFriction, deltaTime)
        s0 == [position |-> n.position, prevPosition |-> n.prevPosition,
               velocity |-> VSub(n.position, n.prevPosition)]
        s1 == HitGround(s0, n, physics.areaHeight, friction)
        s2 == HitCeiling(s1, n)
        s3 == HitLeft(s2, n)
        s4 == HitRight(s3, n, physics.areaWidth)
    IN  [n EXCEPT !.position = s4.position, !.prevPosition = s4.prevPosition]

\* The calls of onCollision that #resolveCollisionNodeNode(node1, node2)
\* makes on the nodes a and b, each as <<receiver, argument>>, in order.
OnCollisionCalls_AfterLockTest(heap, a, b) ==
    IF ~heap[a].collider \/ ~heap[b].collider THEN <<>>
    ELSE IF heap[a].locked /\ heap[b].locked THEN <<>>
    ELSE << <<a, b>>, <<b, a>> >>
OnCollisionCalls(heap, a, b) ==
    IF ~heap[a].collider \/ ~heap[b].collider THEN <<>>
    ELSE << <<a, b>>, <<b, a>> >>

\* The condition of the inner loop of the node pass.
NarrowPhase(heap, id, candidate) ==
    /\ id # candidate
    /\ CheckCollisionNodeNode(heap[id], heap[candidate])
    /\ heap[id].collider
    /\ heap[candidate].collider

\* One iteration of the inner loop of the node pass: the nodes after it and
\* the hook calls made in it.
ResolveCandidate(heap, id, candidate, physics) ==
    IF NarrowPhase(heap, id, candidate)
    THEN ResolveCollisionNodeNode(heap, id, candidate, physics)
    ELSE heap
CandidateCalls(heap, id, candidate) ==
    IF NarrowPhase(heap, id, candidate) THEN OnCollisionCalls(heap, id, candidate) ELSE <<>>

\* The inner loop of the node pass: node id against its candidates from the
\* k-th on.
RECURSIVE ResolveCandidates(_, _, _, _, _)
ResolveCandidates(heap, id, candidates, k, physics) ==
    IF k > Len(candidates) THEN heap
    ELSE ResolveCandidates(ResolveCandidate(heap, id, candidates[k], physics),
                           id, candidates, k + 1, physics)

\* The node pass for node id after its boundary test left the nodes as
\* `bounded`: getNearby and the node-node resolution.  st.heap are the nodes
\* and st.afterBoundary[id] the position of node id right after its boundary
\* test.
CollideNode(st, id, bounded, g, physics) ==
    [ heap |-> ResolveCandidates(bounded, id, GetNearby(g, bounded, id), 1, physics),
      afterBoundary |-> [st.afterBoundary EXCEPT ![id] = bounded[id].position] ]

\* The node pass of #resolveCollisions from the k-th registered node on.
RECURSIVE CollideNodes(_, _, _, _, _, _)
CollideNodes(st, ids, k, deltaTime, g, physics) ==
    IF k > Len(ids) THEN st
    ELSE CollideNodes(
             CollideNode(st, ids[k],
                         [st.heap EXCEPT ![ids[k]] = CheckCollisionWithBoundary(@, deltaTime, physics)],
                         g, physics),
             ids, k + 1, deltaTime, g, physics)

\* Physics.#closestPointOnConnection(point, ConnectionStart, ConnectionEnd)
ClosestPointOnConnection(point, start, end) ==
    LET lengthSquared == RMul[VDistance(start, end), VDistance(start, end)]
        t == RMax[Zero, RMin[One, RDiv[VDot(VSub(point, start), VSub(end, start)), lengthSquared]]]
    IN  IF REq(lengthSquared, Zero) THEN start
        ELSE VAdd(start, VMult(VSub(end, start), t))

\* Physics.#checkCollisionNodeConnection(node, connection)
CheckCollisionNodeConnection(heap, id, c) ==
    LET closestPoint == ClosestPointOnConnection(heap[id].position, heap[c.node1].position,
                                                 heap[c.node2].position)
    IN  RLe[VDistance(heap[id].position, closestPoint), heap[id].radius]

\* The edge of the shape with index i crosses the horizontal ray that goes
\* right from node n.
CrossesRay(heap, connHeap, n, shape, i) ==
    LET connection == connHeap[shape.connections[i]]
        cn1 == heap[connection.node1].position
        cn2 == heap[connection.node2].position
        intersectX == RAdd[cn1[1], RDiv[RMul[RSub[n.position[2], cn1[2]], RSub[cn2[1], cn1[1]]],
                                        RSub[cn2[2], cn1[2]]]]
    IN  /\ RGt[cn1[2], n.position[2]] # RGt[cn2[2], n.position[2]]
        /\ connection.collider
        /\ RLt[n.position[1], intersectX]

\* The point-in-shape test that counts every connection of the shape, the
\* braces too.
CheckCollisionNodeShape_AllConnections(heap, connHeap, n, shape) ==
    /\ ~n.locked
    /\ Cardinality({i \in DOMAIN shape.connections :
                       CrossesRay(heap, [c \in DOMAIN connHeap |-> [connHeap[c] EXCEPT !.collider = TRUE]],
                                  n, shape, i)}) % 2 # 0

\* Physics.#checkCollisionNodeShape(node, shape)
CheckCollisionNodeShape(heap, connHeap, n, shape) ==
    /\ ~n.locked
    /\ Cardinality({i \in DOMAIN shape.connections : CrossesRay(heap, connHeap, n, shape, i)}) % 2 # 0

\* Physics.#closestConnectionToNode(node, shape): the forEach from the k-th
\* connection on, with the closest connection and its distance so far.
RECURSIVE ClosestFrom(_, _, _, _, _, _, _)
ClosestFrom(heap, connHeap, n, cids, k, closest, closestDistance) ==
    IF k > Len(cids) THEN closest
    ELSE LET connection == connHeap[cids[k]]
             distance == VDistance(n.position,
                             ClosestPointOnConnection(n.position, heap[connection.node1].position,
                                                      heap[connection.node2].position))
         IN  IF connection.collider /\ RLt[distance, closestDistance]
             THEN ClosestFrom(heap, connHeap, n, cids, k + 1, cids[k], distance)
             ELSE ClosestFrom(heap, connHeap, n, cids, k + 1, closest, closestDistance)

ClosestConnectionToNode(heap, connHeap, n, shape) ==
    ClosestFrom(heap, connHeap, n, shape.connections, 1, NoConnection, PosInf)

\* a < 1e-6
BelowJitter(a) ==
    \/ a = NegInf
    \/ IsFinite(a) /\ a[1] <= (a[2] - 1) \div 1000000

\* Physics.#resolveCollisionNodeConnection(node, connection).  (The hooks of
\* the node, the connection and its parent do nothing unless overwritten.)
ResolveCollisionNodeConnection(heap, id, c, physics) ==
    LET node0 == heap[id]
        cn1 == heap[c.node1]
        cn2 == heap[c.node2]
        closestPoint == ClosestPointOnConnection(node0.position, cn1.position, cn2.position)
        overlap0 == RSub[node0.radius, VDistance(node0.position, closestPoint)]
        direction0 == VSub(closestPoint, node0.position)
        direction == VNormalize(direction0)
        avgBounciness == RMul[RDiv[RAdd[RAdd[node0.bounciness, cn1.bounciness], cn2.bounciness],
                                   R(3)], R(10)]
        overlap == RMul[overlap0, RMul[RAdd[One, avgBounciness], physics.responseCoef]]
        NodeBias == node0.mass
        parentBias == RAdd[cn1.mass, cn2.mass]
        totalBias == RAdd[NodeBias, parentBias]
        NodeAdjustment == RDiv[RMul[overlap, parentBias], totalBias]
        physicsObjectAdjustment == RDiv[RMul[overlap, NodeBias], totalBias]
        distanceToNode1 == VDistance(node0.position, cn1.position)
        distanceToNode2 == VDistance(node0.position, cn2.position)
        totalDistance == RAdd[distanceToNode1, distanceToNode2]
        proportionForNode1 == RDiv[distanceToNode2, totalDistance]
        proportionForNode2 == RDiv[distanceToNode1, totalDistance]
        h1 == IF ~node0.locked
              THEN [heap EXCEPT ![id].position = VSub(@, VMult(direction, NodeAdjustment))]
              ELSE heap
        h2 == IF ~cn1.locked
              THEN [h1 EXCEPT ![c.node1].position =
                        VAdd(@, VMult(direction, RMul[physicsObjectAdjustment, proportionForNode1]))]
              ELSE h1
        h3 == IF ~cn2.locked
              THEN [h2 EXCEPT ![c.node2].position =
                        VAdd(@, VMult(direction, RMul[physicsObjectAdjustment, proportionForNode2]))]
              ELSE h2
    IN  IF RLe[overlap0, Zero] THEN heap
        ELSE IF BelowJitter(VMag(direction0)) THEN heap
        ELSE h3

\* The condition of the solid-shape ejection of a candidate by connection
\* cid of a solid parent.
EjectFires(heap, connHeap, objHeap, cid, candidate) ==
    /\ CheckCollisionNodeShape(heap, connHeap, heap[candidate], objHeap[connHeap[cid].parent])
    /\ ClosestConnectionToNode(heap, connHeap, heap[candidate], objHeap[connHeap[cid].parent]) = cid

\* The ejection that stops at the closest point of the edge.
Eject_ToEdge(heap, connHeap, objHeap, cid, candidate) ==
    LET c == connHeap[cid]
        closestPos == ClosestPointOnConnection(heap[candidate].position, heap[c.node1].position,
                                               heap[c.node2].position)
    IN  IF EjectFires(heap, connHeap, objHeap, cid, candidate)
        THEN [heap EXCEPT ![candidate].position = closestPos]
        ELSE heap

\* The solid-shape ejection of a candidate by connection cid of a solid
\* parent: the candidate is moved past the closest point of the edge.
Eject(heap, connHeap, objHeap, cid, candidate) ==
    LET c == connHeap[cid]
        closestPos == ClosestPointOnConnection(heap[candidate].position, heap[c.node1].position,
                                               heap[c.node2].position)
        dir == VMult(VSub(heap[candidate].position, closestPos), Frac[-11, 10])
    IN  IF EjectFires(heap, connHeap, objHeap, cid, candidate)
        THEN [heap EXCEPT ![candidate].position = VAdd(@, dir)]
        ELSE heap

\* The connection test and resolution for one candidate, on the nodes the
\* ejection left.
CollideEjected(ejected, candidate, c, physics) ==
    IF c.parent # NoParent /\ CheckCollisionNodeConnection(ejected, candidate, c)
    THEN ResolveCollisionNodeConnection(ejected, candidate, c, physics)
    ELSE ejected

\* The condition of the inner loop of the connection pass.
ConnectionTakes(heap, connHeap, cid, candidate) ==
    /\ connHeap[cid].collider
    /\ ~(connHeap[cid].node1 = candidate \/ connHeap[cid].node2 = candidate)
    /\ heap[candidate].collider

\* The first half of the body of the inner loop: the ejection, for a
\* connection of a solid shape.
EjectCandidate(heap, connHeap, objHeap, cid, candidate) ==
    IF /\ ConnectionTakes(heap, connHeap, cid, candidate)
       /\ connHeap[cid].parent # NoParent
       /\ objHeap[connHeap[cid].parent].solidShape
    THEN Eject(heap, connHeap, objHeap, cid, candidate)
    ELSE heap

\* The body of the inner loop of the connection pass for one candidate.
CollideCandidate(heap, connHeap, objHeap, cid, candidate, physics) ==
    IF ConnectionTakes(heap, connHeap, cid, candidate)
    THEN CollideEjected(EjectCandidate(heap, connHeap, objHeap, cid, candidate),
                        candidate, connHeap[cid], physics)
    ELSE heap

\* The hook calls of the ejection, connection.parent.onCollision(), and of
\* #resolveCollisionNodeConnection: node.onCollision(connection),
\* connection.onCollision() and connection.parent.onCollision().
EjectionCalls(c) == << [on |-> "object", id |-> c.parent, with |-> NoConnection] >>
ResolutionCalls(cid, candidate, c) ==
    << [on |-> "node", id |-> candidate, with |-> cid],
       [on |-> "connection", id |-> cid, with |-> NoConnection],
       [on |-> "object", id |-> c.parent, with |-> NoConnection] >>

\* The hook calls made in the body of the inner loop of the connection pass
\* for one candidate, in order.
CandidateEdgeCalls(heap, connHeap, objHeap, cid, candidate) ==
    LET c == connHeap[cid]
        solid == c.parent # NoParent /\ objHeap[c.parent].solidShape
        ejected == IF solid THEN Eject(heap, connHeap, objHeap, cid, candidate) ELSE heap
    IN  IF ConnectionTakes(heap, connHeap, cid, candidate)
        THEN (IF solid /\ EjectFires(heap, connHeap, objHeap, cid, candidate)
              THEN EjectionCalls(c) ELSE <<>>)
             \o (IF c.parent # NoParent /\ CheckCollisionNodeConnection(ejected, candidate, c)
                 THEN ResolutionCalls(cid, candidate, c) ELSE <<>>)
        ELSE <<>>

\* The inner loop of the connection pass from the k-th candidate on.
RECURSIVE CollideCandidates(_, _, _, _, _, _, _)
CollideCandidates(heap, connHeap, objHeap, cid, candidates, k, physics) ==
    IF k > Len(candidates) THEN heap
    ELSE CollideCandidates(CollideCandidate(heap, connHeap, objHeap, cid, candidates[k], physics),
                           connHeap, objHeap, cid, candidates, k + 1, physics)

\* The connection pass of #resolveCollisions from the k-th connection on.
RECURSIVE CollideConnections(_, _, _, _, _, _, _)
CollideConnections(heap, connHeap, objHeap, cids, k, g, physics) ==
    IF k > Len(cids) THEN heap
    ELSE LET c == connHeap[cids[k]]
             candidates == GetNodesForConnection(g, heap, c.node1, c.node2)
         IN  CollideConnections(
                 CollideCandidates(heap, connHeap, objHeap, cids[k], candidates, 1, physics),
                 connHeap, objHeap, cids, k + 1, g, physics)

----------------------------------------------------------------------------
\* State

VARIABLES
    node,          \* the PhysicsNode objects, by identity (a sequence)
    conn,          \* the PhysicsConnection objects, by identity (a sequence)
    solver,        \* repeated solve(): calls made, and the nodes before the last call
    grid,          \* the SpatialGrid object
    query,         \* the calls made on the grid and what the last getNearby returned
    walk,          \* the position within getNodesForConnection and its locals
    object,        \* the PhysicsObject objects, by identity (a sequence)
    physics,       \* the Physics object
    run            \* the position within Physics.update, its locals and its history

vars == <<node, conn, object, solver, grid, query, walk, physics, run>>

\* The value of a variable that a specification does not use.
Unused == <<>>

----------------------------------------------------------------------------
\* SpecSolve: one PhysicsConnection between two nodes, solve() called
\* repeatedly.

\* Bound on the number of solve() calls in a row.
MaxSolves == 3

\* Node 1 sits at the origin; node 2 at a rational distance from it (24 along
\* an axis, 20 along a 3-4-5 direction) or on top of it.
SolvePositions == {VecI(24, 0), VecI(0, -24), VecI(12, 16), VecI(0, 0)}
SolveMasses == {R(1), R(2), R(3)}
\* 0 selects the constructor's default, the current distance.
SolveRestingDistances == {R(4), R(36), R(0)}

SolveNode(position, mass, locked) ==
    NewPhysicsNode(position, R(5), mass, Zero, One, One, locked, TRUE)

InitSolve ==
    /\ \E p2 \in SolvePositions, m1, m2 \in SolveMasses, l1, l2 \in BOOLEAN :
           node = <<SolveNode(VecI(0, 0), m1, l1), SolveNode(p2, m2, l2)>>
    /\ \E rest \in SolveRestingDistances :
           conn = <<NewPhysicsConnection(node, 1, 2, rest, TRUE)>>
    /\ solver = [count |-> 0, before |-> node]
    /\ grid = Unused /\ query = Unused /\ walk = Unused
    /\ physics = Unused /\ run = Unused /\ object = Unused

SolveStep ==
    /\ solver.count < MaxSolves
    /\ node' = Solve(node, conn[1])
    /\ solver' = [count |-> solver.count + 1, before |-> node]
    /\ UNCHANGED <<conn, grid, query, walk, physics, run, object>>

NextSolve == SolveStep

SpecSolve == InitSolve /\ [][NextSolve]_vars

\* The distance of the two ends of connection c, and its deviation from the
\* resting distance, on the node objects of heap.
ConnDistance(heap, c) == VDistance(heap[c.node1].position, heap[c.node2].position)
ConnDeviation(heap, c) == RSub[ConnDistance(heap, c), c.restingDistance]
\* How far node id moved between two heaps.
Moved(before, after, id) == VDistance(before[id].position, after[id].position)

BothUnlocked == ~node[1].locked /\ ~node[2].locked
\* A solve() call has been made on two distinct points off the resting distance.
SolvedOffRest ==
    /\ solver.count > 0
    /\ RGt[ConnDistance(solver.before, conn[1]), Zero]
    /\ IsFinite(ConnDistance(solver.before, conn[1]))
    /\ ~REq(ConnDeviation(solver.before, conn[1]), Zero)

\* C4: for two unlocked, distinct nodes at distance restingDistance + D, D # 0,
\* one solve() leaves the distance at exactly restingDistance + D/2, whatever
\* the two masses; so from call to call |distance - restingDistance| decreases
\* strictly and the deviation keeps its sign (no overshoot).
C4_SolveHalvesDeviation ==
    (SolvedOffRest /\ BothUnlocked) =>
        LET dBefore == ConnDeviation(solver.before, conn[1])
            dAfter  == ConnDeviation(node, conn[1])
        IN  /\ ConnDistance(node, conn[1])
                   = RAdd[conn[1].restingDistance, RDiv[dBefore, R(2)]]
            /\ RLt[RAbs(dAfter), RAbs(dBefore)]
            /\ ISgn(dAfter[1]) = ISgn(dBefore[1])

\* C4 witness: the last of several solve() calls on two unlocked nodes of
\* different mass that are off the resting distance.
C4_Witness ==
    /\ SolvedOffRest
    /\ BothUnlocked
    /\ solver.count >= 2
    /\ node[1].mass # node[2].mass

\* C5 (as claimed): with both nodes unlocked each node is displaced by half
\* the deviation times the OTHER node's mass over the total mass, so the
\* lighter node moves farther and m1*p1 + m2*p2 is unchanged by solve().
C5_CorrectionWeightedByOtherMass ==
    (SolvedOffRest /\ BothUnlocked) =>
        LET half  == RAbs(RDiv[ConnDeviation(solver.before, conn[1]), R(2)])
            m1    == node[1].mass
            m2    == node[2].mass
            total == RAdd[m1, m2]
            centre(heap) == VAdd(VMult(heap[1].position, m1), VMult(heap[2].position, m2))
        IN  /\ Moved(solver.before, node, 1) = RDiv[RMul[half, m2], total]
            /\ Moved(solver.before, node, 2) = RDiv[RMul[half, m1], total]
            /\ RLt[m1, m2] => RGt[Moved(solver.before, node, 1), Moved(solver.before, node, 2)]
            /\ centre(node) = centre(solver.before)

----------------------------------------------------------------------------
\* SpecGrid: a SpatialGrid and a few nodes; insert, getNearby and clear are
\* called in any order.

\* Number of nodes that exist next to the grid.
MaxGridNodes == 3

\* (cellSize, width, height): a width that is a whole number of cells, and a
\* height that is.
GridSizes == {<<R(20), R(60), R(50)>>, <<R(20), R(50), R(40)>>}

\* Inside the area, left of it, on and beyond its right and bottom edges.
GridPositions ==
    {VecI(10, 10), VecI(30, 30), VecI(-30, 10), VecI(60, 10), VecI(10, 40), VecI(75, 55)}

GridNode(position) == NewPhysicsNode(position, R(5), One, Zero, One, One, FALSE, TRUE)

InitGrid ==
    /\ \E ps \in [1 .. MaxGridNodes -> GridPositions] :
           node = [id \in 1 .. MaxGridNodes |-> GridNode(ps[id])]
    /\ \E size \in GridSizes : grid = NewSpatialGrid(size[1], size[2], size[3])
    /\ query = [inserted |-> {}, failed |-> {}, of |-> 0, result |-> <<>>]
    /\ conn = Unused /\ solver = Unused /\ walk = Unused
    /\ physics = Unused /\ run = Unused /\ object = Unused

\* grid.insert(node[id]); the TypeError leaves the grid as it was.
InsertStep(id) ==
    /\ id \notin query.inserted \cup query.failed
    /\ IF InsertThrows(grid, node[id].position)
       THEN /\ query' = [query EXCEPT !.failed = @ \cup {id}]
            /\ UNCHANGED grid
       ELSE /\ grid' = GridInsert(grid, node, id)
            /\ query' = [query EXCEPT !.inserted = @ \cup {id}]
    /\ UNCHANGED <<node, conn, solver, walk, physics, run, object>>

\* grid.getNearby(node[id]) for a node that is in the grid.
GetNearbyStep(id) ==
    /\ id \in query.inserted
    /\ query' = [query EXCEPT !.of = id, !.result = GetNearby(grid, node, id)]
    /\ UNCHANGED <<node, conn, solver, grid, walk, physics, run, object>>

\* grid.clear()
ClearStep ==
    /\ query.inserted # {}
    /\ grid' = GridClear(grid)
    /\ query' = [query EXCEPT !.inserted = {}, !.of = 0, !.result = <<>>]
    /\ UNCHANGED <<node, conn, solver, walk, physics, run, object>>

NextGrid ==
    \/ \E id \in 1 .. MaxGridNodes : InsertStep(id)
    \/ \E id \in 1 .. MaxGridNodes : GetNearbyStep(id)
    \/ ClearStep

SpecGrid == InitGrid /\ [][NextGrid]_vars

\* The (row, column) of the bucket that holds node id.
StoredCell(g, id) ==
    CHOOSE rc \in (0 .. g.rows - 1) \X (0 .. g.columns - 1) : id \in Range(g.cells[rc[1]][rc[2]])

\* Node m is stored in the bucket of node n or in one of the eight around it.
StoredNextTo(g, n, m) ==
    LET a == StoredCell(g, n)
        b == StoredCell(g, m)
    IN  IAbs(a[1] - b[1]) <= 1 /\ IAbs(a[2] - b[2]) <= 1

\* C8: insert(node) always stores the node in an existing bucket - the column
\* and the row it computes are valid indices - so no insert fails, wherever
\* the node is (on or beyond the right or bottom edge, or at negative
\* coordinates).
C8_InsertLandsInBucket ==
    /\ query.failed = {}
    /\ \A id \in query.inserted :
           \E row \in 0 .. grid.rows - 1, col \in 0 .. grid.columns - 1 :
               id \in Range(grid.cells[row][col])

\* C9: getNearby(n) returns every node stored in the bucket of n or in an
\* adjacent bucket, also when n was clamped into an edge bucket by insert.
C9_NearbyHasAllNeighbours ==
    query.of # 0 =>
        \A m \in query.inserted :
            StoredNextTo(grid, query.of, m) => m \in Range(query.result)

----------------------------------------------------------------------------
\* SpecCells: getNodesForConnection(startNode, endNode) on a grid that holds
\* two other nodes, one loop iteration per step.

\* The two ends of the connection: near each other, outside the area, as
\* far apart as the loop is allowed to walk, much farther, and not a number.
WalkEnds ==
    { <<VecI(10, 10), VecI(10, 10)>>,
      <<VecI(10, 10), VecI(50, 30)>>,
      <<VecI(50, 10), VecI(10, 45)>>,
      <<VecI(10, 10), VecI(20010, 10)>>,
      <<VecI(50, 45), VecI(-30, 10)>>,
      <<VecI(-30, -30), VecI(130, 90)>>,
      <<VecI(10, 10), VecI(30010, 10)>>,
      <<VecI(30, -20000), VecI(-20000, 30)>>,
      <<VecI(10, 10), <<NaN, R(10)>>>>,
      <<<<NaN, NaN>>, VecI(30, 30)>>,
      <<<<PosInf, R(10)>>, VecI(30, 30)>> }

InitCells ==
    /\ \E ends \in WalkEnds :
           node = <<GridNode(ends[1]), GridNode(ends[2]),
                    GridNode(VecI(10, 10)), GridNode(VecI(50, 30))>>
    /\ grid = GridInsert(GridInsert(NewSpatialGrid(R(20), R(60), R(50)), node, 3), node, 4)
    /\ walk = [pc |-> "idle", w |-> Unused, result |-> <<>>]
    /\ conn = Unused /\ solver = Unused /\ query = Unused
    /\ physics = Unused /\ run = Unused /\ object = Unused

\* The call, up to the loop of #getCellsForConnection.
WalkBegin ==
    /\ walk.pc = "idle"
    /\ walk' = [walk EXCEPT !.pc = "loop",
                            !.w = WalkStart(grid, node[1].position, node[2].position)]
    /\ UNCHANGED <<node, conn, solver, grid, query, physics, run, object>>

\* One iteration of the loop.
WalkLoop ==
    /\ walk.pc = "loop"
    /\ walk.w.running
    /\ walk' = [walk EXCEPT !.w = WalkIter(walk.w)]
    /\ UNCHANGED <<node, conn, solver, grid, query, physics, run, object>>

\* After the loop: the nodes around the cells are collected and returned.
WalkReturn ==
    /\ walk.pc = "loop"
    /\ ~walk.w.running
    /\ walk' = [walk EXCEPT !.pc = "done", !.result = NodesOfCells(grid, walk.w.cells)]
    /\ UNCHANGED <<node, conn, solver, grid, query, physics, run, object>>

NextCells == WalkBegin \/ WalkLoop \/ WalkReturn

SpecCells == InitCells /\ [][NextCells]_vars

\* C10: the cell traversal terminates for every pair of end positions: the
\* loop makes at most StepCap + 1 iterations (one cell pushed per iteration,
\* the counter never passes StepCap + 1), and what is returned - also after
\* the cap cut the traversal short - is a list of nodes of the grid without
\* repetition.
C10_TraversalTerminates ==
    /\ walk.pc # "idle" =>
           /\ walk.w.counter <= StepCap + 1
           /\ Len(walk.w.cells) <= StepCap + 1
           /\ walk.w.running => Len(walk.w.cells) = walk.w.counter
    /\ walk.pc = "done" =>
           /\ Range(walk.result) \subseteq {3, 4}
           /\ Cardinality(Range(walk.result)) = Len(walk.result)

\* C10 witness: a traversal between a finite and a NaN position has returned
\* after the cap ended its loop.
C10_Witness ==
    /\ walk.pc = "done"
    /\ walk.w.counter > StepCap
    /\ IsNaN(walk.w.x1)
    /\ Len(walk.w.cells) = StepCap + 1

----------------------------------------------------------------------------
\* Spec: a Physics simulation with a few nodes, connections and objects;
\* update(deltaTime) is called repeatedly and advances one phase of a
\* sub-step per step; between two calls a node can be added.

\* Bound on the number of update() calls.
MaxUpdates == 2
\* Bound on the number of registered nodes up to which nodes are added.
MaxNodes == 2

\* A paused frame, a regular frame and a frame after a stall (> MAX_DELTA).
DeltaTimes == {Zero, Frac[1, 10], Frac[2, 5]}
Gravities == {VecI(0, 0), <<Zero, Frac[1, 4]>>}
SubStepChoices == {R(1), R(2)}
\* The default response coefficient, and one above the range the constructor
\* clamps it to.
ResponseCoefs == {Frac[3, 4], Frac[3, 2]}

\* The area is 40 wide (a whole number of grid cells) and 50 high (not one).
\* The friction coefficients of all nodes are 1, so that Math.pow on them is
\* exact.
SimPhysics(gravity, subSteps, responseCoef) ==
    NewPhysics(R(40), R(50), gravity, subSteps, responseCoef, Frac[1, 5])

SimNode(w, position, mass, bounciness, locked) ==
    MakePhysicsNode(w, position, R(5), mass, bounciness, One, One, locked, TRUE)

\* new PhysicsNode(...) and new PhysicsConnection(...) not yet registered.
FreeNode(w, position, mass, locked) ==
    [w EXCEPT !.node = Alloc(@, NewPhysicsNode(position, R(5), mass, Zero, One, One, locked, TRUE))]
FreeConnection(w, node1, node2, collider) ==
    [w EXCEPT !.conn = Alloc(@, NewPhysicsConnection(w.node, node1, node2, Zero, collider))]

\* One node across the left wall, without and with bounciness.
SceneAlone(w) == SimNode(w, VecI(-1, 20), One, Zero, FALSE)
SceneBouncy(w) == SimNode(w, VecI(-1, 20), One, Frac[1, 2], FALSE)
\* A node across the left wall and a second one right next to it.
SceneWallPair(w) ==
    SimNode(SimNode(w, VecI(-1, 20), One, Zero, FALSE), VecI(6, 20), One, Zero, FALSE)
\* Two overlapping nodes, centres 6 apart, away from the walls.
ScenePair(w) ==
    SimNode(SimNode(w, VecI(17, 20), One, Zero, FALSE), VecI(23, 20), One, Zero, FALSE)
\* A locked node that touches the ceiling, with a heavier node hanging from it.
SceneAnchor(w) ==
    MakePhysicsConnection(
        SimNode(SimNode(w, VecI(20, 3), One, Zero, TRUE), VecI(20, 30), R(2), Zero, FALSE),
        1, 2, R(20), TRUE)
\* One node beyond the right wall.
SceneBeyond(w) == SimNode(w, VecI(45, 20), One, Zero, FALSE)
\* A bar object (one end locked) and a node that overlaps the bar.
SceneBar(w) ==
    SimNode(
        NewPhysicsObject(
            FreeConnection(FreeNode(FreeNode(w, VecI(10, 30), One, TRUE), VecI(30, 30), One, FALSE),
                           1, 2, TRUE),
            <<1, 2>>, <<1>>, FALSE),
        VecI(20, 27), One, Zero, FALSE)
\* A solid triangle object (one corner locked) and a node inside it.
SceneTriangle(w) ==
    SimNode(
        NewPhysicsObject(
            FreeConnection(FreeConnection(FreeConnection(
                FreeNode(FreeNode(FreeNode(w, VecI(10, 40), One, TRUE), VecI(30, 40), One, FALSE),
                         VecI(20, 20), One, FALSE),
                1, 2, TRUE), 2, 3, TRUE), 3, 1, TRUE),
            <<1, 2, 3>>, <<1, 2, 3>>, TRUE),
        VecI(20, 33), One, Zero, FALSE)

Scenes(w) ==
    { SceneAlone(w), SceneBouncy(w), SceneWallPair(w), ScenePair(w), SceneAnchor(w),
      SceneBeyond(w), SceneBar(w), SceneTriangle(w) }

\* The nodes that can be added between two updates: a free one next to the
\* left wall and a locked one that reaches below the ground.
ExtraNodes ==
    { [position |-> VecI(6, 20), locked |-> FALSE],
      [position |-> VecI(30, 47), locked |-> TRUE] }

Positions(heap) == [id \in DOMAIN heap |-> heap[id].position]

Init ==
    /\ \E gravity \in Gravities, subSteps \in SubStepChoices, responseCoef \in ResponseCoefs :
           \E w \in Scenes(SimPhysics(gravity, subSteps, responseCoef)) :
               /\ node = w.node
               /\ conn = w.conn
               /\ object = w.object
               /\ physics = w.physics
               /\ grid = w.grid
    /\ run = [ pc |-> "idle",
               step |-> 0,
               deltaTime |-> Zero,
               calls |-> 0,
               threw |-> FALSE,
               log |-> <<>>,
               atCall |-> [nodes |-> <<>>, connections |-> <<>>],
               outside |-> {},
               before |-> node,
               afterBoundary |-> Positions(node),
               placed |-> Positions(node),
               start |-> Positions(node) ]
    /\ solver = Unused /\ query = Unused /\ walk = Unused

\* The simulation and the objects around it as one record.
World == [node |-> node, conn |-> conn, object |-> object, physics |-> physics, grid |-> grid]

\* deltaTime / this.#subSteps
DeltaTimeSubStep == RDiv[run.deltaTime, physics.subSteps]

\* A phase of sub-step run.step went through the first `visited` entries of ids.
Entry(phase, ids, visited) ==
    [phase |-> phase, step |-> run.step, visited |-> SubSeq(ids, 1, visited)]

\* physics.makePhysicsNode(...) between two updates.
MakePhysicsNodeStep(extra) ==
    /\ run.pc = "idle"
    /\ Len(physics.nodes) < MaxNodes
    /\ \E w \in {SimNode(World, extra.position, One, Zero, extra.locked)} :
           /\ node' = w.node
           /\ physics' = w.physics
           /\ grid' = w.grid
    /\ run' = [run EXCEPT !.afterBoundary = Append(@, extra.position),
                          !.placed = Append(@, extra.position),
                          !.start = Append(@, extra.position)]
    /\ UNCHANGED <<conn, object, solver, query, walk>>

\* Physics.update(deltaTime) up to the first sub-step.
BeginUpdate(deltaTime) ==
    /\ run.pc = "idle"
    /\ run' = [run EXCEPT !.pc = IF RLt[Zero, physics.subSteps] THEN "integrate" ELSE "idle",
                          !.step = 0,
                          !.deltaTime = deltaTime,
                          !.calls = @ + 1,
                          !.threw = FALSE,
                          !.log = <<>>,
                          !.atCall = [nodes |-> physics.nodes,
                                      connections |-> physics.connections],
                          !.outside = {}]
    /\ UNCHANGED <<node, conn, object, physics, grid, solver, query, walk>>

Update(deltaTime) == run.calls < MaxUpdates /\ BeginUpdate(deltaTime)

\* The node.update loop of the sub-step; an exception ends the call.
Integrate ==
    /\ run.pc = "integrate"
    /\ \E r \in {IntegrateNodes(node, physics.nodes, 1, RGt[run.deltaTime, physics.MAX_DELTA],
                                DeltaTimeSubStep, physics.gravity)} :
           /\ node' = r.heap
           /\ run' = [run EXCEPT
                        !.pc = IF r.threw THEN "idle" ELSE "solve",
                        !.threw = r.threw,
                        !.log = Append(@, Entry("integrate", physics.nodes, r.visited)),
                        !.start = Positions(node),
                        !.outside = @ \cup
                            {id \in Range(physics.nodes) :
                                RLt[RSub[r.heap[id].position[1], r.heap[id].radius], Zero]}]
    /\ UNCHANGED <<conn, object, physics, grid, solver, query, walk>>

\* this.#resolveConnections()
SolveConnections ==
    /\ run.pc = "solve"
    /\ node' = ResolveConnections(node, conn, physics.connections, 1)
    /\ run' = [run EXCEPT !.pc = "grid",
                          !.log = Append(@, Entry("solve", physics.connections,
                                                  Len(physics.connections)))]
    /\ UNCHANGED <<conn, object, physics, grid, solver, query, walk>>

\* #resolveCollisions: the grid is cleared and refilled; an exception ends
\* the call.
RebuildGrid ==
    /\ run.pc = "grid"
    /\ \E r \in {InsertNodes(GridClear(grid), node, physics.nodes, 1)} :
           /\ grid' = r.grid
           /\ run' = [run EXCEPT !.pc = IF r.threw THEN "idle" ELSE "nodes",
                                 !.threw = r.threw,
                                 !.log = Append(@, Entry("grid", physics.nodes, r.visited))]
    /\ UNCHANGED <<node, conn, object, physics, solver, query, walk>>

\* #resolveCollisions: the loop over the nodes.
NodePass ==
    /\ run.pc = "nodes"
    /\ \E st \in {CollideNodes([heap |-> node, afterBoundary |-> run.afterBoundary],
                               physics.nodes, 1, DeltaTimeSubStep, grid, physics)} :
           /\ node' = st.heap
           /\ run' = [run EXCEPT !.pc = "connections",
                                 !.before = node,
                                 !.afterBoundary = st.afterBoundary,
                                 !.log = Append(@, Entry("nodes", physics.nodes,
                                                         Len(physics.nodes)))]
    /\ UNCHANGED <<conn, object, physics, grid, solver, query, walk>>

\* #resolveCollisions: the loop over the connections, and the end of the
\* sub-step: the next one starts or update returns.
ConnectionPass ==
    /\ run.pc = "connections"
    /\ node' = CollideConnections(node, conn, object, physics.connections, 1, grid, physics)
    /\ run' = [run EXCEPT !.pc = IF RLt[R(run.step + 1), physics.subSteps]
                                 THEN "integrate" ELSE "idle",
                          !.step = @ + 1,
                          !.log = Append(@, Entry("connections", physics.connections,
                                                  Len(physics.connections)))]
    /\ UNCHANGED <<conn, object, physics, grid, solver, query, walk>>

Next ==
    \/ \E extra \in ExtraNodes : MakePhysicsNodeStep(extra)
    \/ \E deltaTime \in DeltaTimes : Update(deltaTime)
    \/ Integrate
    \/ SolveConnections
    \/ RebuildGrid
    \/ NodePass
    \/ ConnectionPass

Spec == Init /\ [][Next]_vars

\* An update() call has ended, by returning or by raising.
CallEnded == run.pc = "idle" /\ run.calls > 0
Returned == CallEnded /\ ~run.threw

\* What a call with the given node and connection lists logs when every
\* sub-step runs its five phases in order over all of them.
PhaseNames == <<"integrate", "solve", "grid", "nodes", "connections">>
FullLog(nodes, connections, subSteps) ==
    [i \in 1 .. 5 * subSteps |->
        [ phase |-> PhaseNames[((i - 1) % 5) + 1],
          step |-> (i - 1) \div 5,
          visited |-> IF ((i - 1) % 5) + 1 \in {2, 5} THEN connections ELSE nodes ]]

\* C1: a call update(deltaTime) with deltaTime <= MAX_DELTA runs exactly
\* subSteps sub-steps, each of them the five phases in order - integrate every
\* registered node, solve every registered connection, rebuild the grid,
\* node pass, connection pass - before the next sub-step starts.
C1_SubStepsRunPhasesInOrder ==
    (CallEnded /\ RLe[run.deltaTime, physics.MAX_DELTA]) =>
        run.log = FullLog(run.atCall.nodes, run.atCall.connections, AsInt(physics.subSteps))

\* Node n lies within the four walls.
InsideWalls(n) ==
    /\ RGe[n.position[1], n.radius]
    /\ RLe[n.position[1], RSub[physics.areaWidth, n.radius]]
    /\ RGe[n.position[2], n.radius]
    /\ RLe[n.position[2], RSub[physics.areaHeight, n.radius]]

Untouched(id) == node[id].position = run.afterBoundary[id]

Epsilon == Frac[1, 10]

\* Two unlocked collider nodes of equal mass and bounciness 0 that overlap
\* and are clear of the walls.
OverlappingPair(heap, a, b) ==
    /\ ~heap[a].locked /\ ~heap[b].locked
    /\ heap[a].collider /\ heap[b].collider
    /\ heap[a].mass = heap[b].mass
    /\ heap[a].bounciness = Zero /\ heap[b].bounciness = Zero
    /\ RLt[VDistance(heap[a].position, heap[b].position), RAdd[heap[a].radius, heap[b].radius]]
    /\ RGt[VDistance(heap[a].position, heap[b].position), Zero]
    /\ RGt[heap[a].position[1], heap[a].radius] /\ RGt[heap[b].position[1], heap[b].radius]
    /\ RGt[heap[a].position[2], heap[a].radius] /\ RGt[heap[b].position[2], heap[b].radius]
    /\ RLt[RAdd[heap[a].position[1], heap[a].radius], physics.areaWidth]
    /\ RLt[RAdd[heap[b].position[1], heap[b].radius], physics.areaWidth]
    /\ RLt[RAdd[heap[a].position[2], heap[a].radius], physics.areaHeight]
    /\ RLt[RAdd[heap[b].position[2], heap[b].radius], physics.areaHeight]

\* C3: when the node pass of a sub-step has run on two overlapping, unlocked,
\* equal-mass collider nodes with bounciness 0 (the only registered nodes,
\* clear of the walls), their centres are at least
\* radius1 + radius2 - Epsilon apart.
C3_NodePassSeparatesPair ==
    (run.pc = "connections" /\ Len(physics.nodes) = 2) =>
        LET a == physics.nodes[1]
            b == physics.nodes[2]
        IN  OverlappingPair(run.before, a, b) =>
                RGe[VDistance(node[a].position, node[b].position),
                    RSub[RAdd[node[a].radius, node[b].radius], Epsilon]]

\* C7: no phase of any update() changes the position of a locked node: it
\* stays where it was placed.
C7_LockedNodeNeverMoves ==
    \A id \in DOMAIN node : node[id].locked => node[id].position = run.placed[id]

\* C11: in a call update(deltaTime) with deltaTime > MAX_DELTA node motion is
\* still integrated: when the integration loop of a sub-step is over,
\* node.update has run for every registered node.
C11_StallStillIntegrates ==
    (run.pc = "solve" /\ RGt[run.deltaTime, physics.MAX_DELTA]) =>
        run.log[Len(run.log)] = Entry("integrate", physics.nodes, Len(physics.nodes))

\* C12: starting from finite positions, solve() never produces a NaN or
\* infinite coordinate, and on a connection whose two ends coincide it leaves
\* both positions unchanged.
C12_SolveKeepsPositionsFinite ==
    (solver.count > 0 /\ \A id \in DOMAIN solver.before : VIsFinite(solver.before[id].position)) =>
        /\ \A id \in DOMAIN node : VIsFinite(node[id].position)
        /\ solver.before[1].position = solver.before[2].position =>
               \A id \in DOMAIN node : node[id].position = solver.before[id].position

----------------------------------------------------------------------------
\* SpecNode: PhysicsNode objects are constructed and their radius and mass
\* are assigned, with positive and non-positive values.

\* Number of PhysicsNode objects that are constructed.
MaxNewNodes == 2

NodeRadii == {R(-5), R(0), R(5), R(10)}
NodeMasses == {R(-1), R(0), R(1), R(2)}

\* new PhysicsNode(position, radius, mass, ...) raises: of the numeric
\* arguments only the mass is tested, "mass <= 0".
PhysicsNodeThrows(radius, mass) == RLe[mass, Zero]

\* node.radius = value and node.mass = value for a number: the value is
\* stored as it is.
SetRadius(n, value) == [n EXCEPT !.radius = value]
SetMass(n, value) == [n EXCEPT !.mass = value]

InitNode ==
    /\ node = <<>>
    /\ query = [call |-> "none", radius |-> One, mass |-> One, raised |-> FALSE, before |-> <<>>]
    /\ conn = Unused /\ object = Unused /\ solver = Unused /\ grid = Unused
    /\ walk = Unused /\ physics = Unused /\ run = Unused

\* new PhysicsNode(new Vector(20, 20), radius, mass)
ConstructStep(radius, mass) ==
    /\ Len(node) < MaxNewNodes
    /\ node' = IF PhysicsNodeThrows(radius, mass) THEN node
               ELSE Alloc(node, NewPhysicsNode(VecI(20, 20), radius, mass, Zero, One, One,
                                               FALSE, TRUE))
    /\ query' = [call |-> "new", radius |-> radius, mass |-> mass,
                 raised |-> PhysicsNodeThrows(radius, mass), before |-> node]
    /\ UNCHANGED <<conn, object, solver, grid, walk, physics, run>>

\* node.radius = value
SetRadiusStep(id, value) ==
    /\ id \in DOMAIN node
    /\ node' = [node EXCEPT ![id] = SetRadius(@, value)]
    /\ query' = [call |-> "radius", radius |-> value, mass |-> node[id].mass,
                 raised |-> FALSE, before |-> node]
    /\ UNCHANGED <<conn, object, solver, grid, walk, physics, run>>

\* node.mass = value
SetMassStep(id, value) ==
    /\ id \in DOMAIN node
    /\ node' = [node EXCEPT ![id] = SetMass(@, value)]
    /\ query' = [call |-> "mass", radius |-> node[id].radius, mass |-> value,
                 raised |-> FALSE, before |-> node]
    /\ UNCHANGED <<conn, object, solver, grid, walk, physics, run>>

NextNode ==
    \/ \E radius \in NodeRadii, mass \in NodeMasses : ConstructStep(radius, mass)
    \/ \E id \in 1 .. MaxNewNodes, value \in NodeRadii : SetRadiusStep(id, value)
    \/ \E id \in 1 .. MaxNewNodes, value \in NodeMasses : SetMassStep(id, value)

SpecNode == InitNode /\ [][NextNode]_vars

\* C13: a constructor call or a radius or mass assignment with a value <= 0
\* raises and leaves every node as it was, so every existing node has
\* radius > 0 and mass > 0.
C13_NonPositiveSizeRaises ==
    /\ (RLe[query.radius, Zero] \/ RLe[query.mass, Zero]) =>
           query.raised /\ node = query.before
    /\ \A id \in DOMAIN node : RGt[node[id].radius, Zero] /\ RGt[node[id].mass, Zero]

\* C14: once a PhysicsObject has been constructed, each of its nodes and
\* connections has the object as parent and is in the simulation's node or
\* connection list, in every later state of every update() call.
C14_ObjectPartsRegistered ==
    \A oid \in DOMAIN object :
        /\ \A id \in Range(object[oid].nodes) :
               node[id].parent = oid /\ id \in Range(physics.nodes)
        /\ \A cid \in Range(object[oid].connections) :
               conn[cid].parent = oid /\ cid \in Range(physics.connections)

\* C14 witness: a second update() has returned in a simulation that holds an
\* object of three nodes and three connections, and has moved one of them.
C14_Witness ==
    /\ Returned
    /\ run.calls >= 2
    /\ \E oid \in DOMAIN object :
           /\ Len(object[oid].nodes) = 3
           /\ Len(object[oid].connections) = 3
           /\ \E id \in Range(object[oid].nodes) : node[id].position # run.placed[id]

----------------------------------------------------------------------------
\* SpecRegistry: a simulation that holds an object and a node of its own;
\* between two updates nodes are added, made and removed, the object is
\* removed and radii are assigned, in any order.

\* Bounds on the number of calls made, on the length of the simulation's node
\* list and on the number of nodes that exist.
MaxCalls == 3
MaxRegistered == 4
MaxHeap == 4

\* A radius within the default grid cell (20 = 2 * 10) and one beyond it.
RegistryRadii == {R(5), R(15)}

RegistryScenes ==
    { SceneBar(SimPhysics(VecI(0, 0), R(1), Frac[3, 4])),
      SceneTriangle(SimPhysics(VecI(0, 0), R(1), Frac[3, 4])) }

\* The record of a call: its name, the object or node it was made on,
\* whether it raised, and the lists and the cell size before it.
Call(name, target, raised) ==
    [ call |-> name, target |-> target, raised |-> raised, count |-> query.count + 1,
      nodes |-> physics.nodes, connections |-> physics.connections,
      cellSize |-> grid.cellSize ]

InitRegistry ==
    /\ \E w \in RegistryScenes :
           /\ node = w.node
           /\ conn = w.conn
           /\ object = w.object
           /\ physics = w.physics
           /\ grid = w.grid
    /\ query = [ call |-> "none", target |-> 0, raised |-> FALSE, count |-> 0,
                 nodes |-> physics.nodes, connections |-> physics.connections,
                 cellSize |-> grid.cellSize ]
    /\ solver = Unused /\ walk = Unused /\ run = Unused

\* physics.addPhysicsNode(node) for a node that exists, registered or not.
AddPhysicsNodeStep(id) ==
    /\ query.count < MaxCalls
    /\ id \in DOMAIN node
    /\ Len(physics.nodes) < MaxRegistered
    /\ \E w \in {AddPhysicsNode(World, id)} :
           physics' = w.physics /\ grid' = w.grid
    /\ query' = Call("addPhysicsNode", id, FALSE)
    /\ UNCHANGED <<node, conn, object, solver, walk, run>>

\* physics.addPhysicsConnection(connection) for a connection that exists,
\* registered or not.
AddPhysicsConnectionStep(cid) ==
    /\ query.count < MaxCalls
    /\ cid \in DOMAIN conn
    /\ Len(physics.connections) < MaxRegistered
    /\ \E w \in {AddPhysicsConnection(World, cid)} : physics' = w.physics
    /\ query' = Call("addPhysicsConnection", cid, FALSE)
    /\ UNCHANGED <<node, conn, object, grid, solver, walk, run>>

\* physics.makePhysicsNode(new Vector(20, 10), radius)
MakeNodeStep(radius) ==
    /\ query.count < MaxCalls
    /\ Len(node) < MaxHeap
    /\ Len(physics.nodes) < MaxRegistered
    /\ \E w \in {MakePhysicsNode(World, VecI(20, 10), radius, One, Zero, One, One, FALSE, TRUE)} :
           node' = w.node /\ physics' = w.physics /\ grid' = w.grid
    /\ query' = Call("makePhysicsNode", Len(node) + 1, FALSE)
    /\ UNCHANGED <<conn, object, solver, walk, run>>

\* physics.removePhysicsNode(node)
RemovePhysicsNodeStep(id) ==
    /\ query.count < MaxCalls
    /\ id \in DOMAIN node
    /\ \E r \in {RemovePhysicsNode(World, id)} :
           physics' = r.w.physics /\ query' = Call("removePhysicsNode", id, r.threw)
    /\ UNCHANGED <<node, conn, object, grid, solver, walk, run>>

\* physics.removePhysicsConnection(connection)
RemovePhysicsConnectionStep(cid) ==
    /\ query.count < MaxCalls
    /\ cid \in DOMAIN conn
    /\ \E r \in {RemovePhysicsConnection(World, cid)} :
           physics' = r.w.physics /\ query' = Call("removePhysicsConnection", cid, r.threw)
    /\ UNCHANGED <<node, conn, object, grid, solver, walk, run>>

\* object.removeFromSimulation()
RemoveFromSimulationStep(oid) ==
    /\ query.count < MaxCalls
    /\ oid \in DOMAIN object
    /\ \E r \in {RemoveFromSimulation(World, oid)} :
           physics' = r.w.physics /\ query' = Call("removeFromSimulation", oid, r.threw)
    /\ UNCHANGED <<node, conn, object, grid, solver, walk, run>>

\* node.radius = value for a registered node
RadiusStep(id, value) ==
    /\ query.count < MaxCalls
    /\ id \in Range(physics.nodes)
    /\ node' = [node EXCEPT ![id] = SetRadius(@, value)]
    /\ query' = Call("radius", id, FALSE)
    /\ UNCHANGED <<conn, object, physics, grid, solver, walk, run>>

NextRegistry ==
    \/ \E id \in 1 .. MaxHeap : AddPhysicsNodeStep(id)
    \/ \E radius \in RegistryRadii : MakeNodeStep(radius)
    \/ \E cid \in 1 .. 3 : AddPhysicsConnectionStep(cid)
    \/ \E id \in 1 .. MaxHeap : RemovePhysicsNodeStep(id)
    \/ \E cid \in 1 .. 3 : RemovePhysicsConnectionStep(cid)
    \/ RemoveFromSimulationStep(1)
    \/ \E id \in 1 .. MaxHeap, value \in RegistryRadii : RadiusStep(id, value)

SpecRegistry == InitRegistry /\ [][NextRegistry]_vars

\* C18: after any sequence of add, make and remove calls and of assignments
\* to the radius of registered nodes, the grid's cell size is at least twice
\* the radius of every registered node, and no call makes the cell size
\* smaller.
C18_CellFitsEveryNode ==
    /\ \A id \in Range(physics.nodes) : RGe[grid.cellSize, RMul[R(2), node[id].radius]]
    /\ RGe[grid.cellSize, query.cellSize]

\* The entries of seq that are not in the set gone, in their order.
Without(seq, gone) == SelectSeq(seq, LAMBDA x : x \notin gone)

\* C15: after removeFromSimulation() on an object, whether it returned or
\* raised, none of the object's nodes and connections is in the simulation's
\* lists, and the lists are what they were before the call without those
\* entries, in the same order.
C15_RemoveDeregistersAll ==
    query.call = "removeFromSimulation" =>
        /\ Range(physics.nodes) \cap Range(object[query.target].nodes) = {}
        /\ Range(physics.connections) \cap Range(object[query.target].connections) = {}
        /\ physics.nodes = Without(query.nodes, Range(object[query.target].nodes))
        /\ physics.connections =
               Without(query.connections, Range(object[query.target].connections))

----------------------------------------------------------------------------
\* SpecPass: #resolveCollisions for two nodes, one iteration of its loops at
\* a time.  walk is the position in the loops, query the last grid query or
\* narrow-phase test, run the hook calls and the grid rebuilds so far, and how
\* many hook calls there were when the pass began.

\* run.responseCoef is the constructor's argument.

\* The number of sub-steps run one after the other.
MaxPasses == 2

\* The second node overlaps the first one, touches it (centres r1 + r2
\* apart) or is clear of it.
PassPositions == {VecI(25, 20), VecI(31, 20), VecI(33, 20)}

PassDeltaTime == Frac[1, 10]

\* Values of the constructor's responseCoef argument: below, inside and at
\* the upper end of 0.5 .. 1.5.
PassCoefs == {Frac[1, 4], Frac[3, 4], Frac[5, 4], Frac[3, 2]}

PassNode(w, position, locked, collider) ==
    MakePhysicsNode(w, position, R(5), One, Zero, One, One, locked, collider)

InitPass ==
    /\ \E position \in PassPositions, locked1, locked2, collider1, collider2 \in BOOLEAN,
          responseCoef \in PassCoefs :
           \E w \in {PassNode(PassNode(SimPhysics(VecI(0, 0), One, responseCoef),
                                       VecI(21, 20), locked1, collider1),
                              position, locked2, collider2)} :
               /\ node = w.node
               /\ conn = w.conn
               /\ object = w.object
               /\ physics = w.physics
               /\ grid = w.grid
               /\ run = [passes |-> 0, rebuilds |-> 0, calls |-> <<>>, responseCoef |-> responseCoef,
                         start |-> 0]
    /\ walk = [pc |-> "idle", i |-> 0, candidates |-> <<>>, k |-> 0]
    /\ query = [call |-> "none", node |-> 0, candidate |-> 0, before |-> <<>>, calls |-> <<>>]
    /\ solver = Unused

\* #resolveCollisions: the grid is cleared and every node inserted.
BeginPass ==
    /\ walk.pc = "idle"
    /\ run.passes < MaxPasses
    /\ \E r \in {InsertNodes(GridClear(grid), node, physics.nodes, 1)} :
           /\ ~r.threw
           /\ grid' = r.grid
    /\ walk' = [pc |-> "node", i |-> 1, candidates |-> <<>>, k |-> 0]
    /\ run' = [run EXCEPT !.rebuilds = @ + 1, !.start = Len(run.calls)]
    /\ UNCHANGED <<node, conn, object, physics, solver, query>>

\* The head of the outer loop for the i-th node: the boundary test and
\* grid.getNearby(node).
BoundaryStep ==
    /\ walk.pc = "node"
    /\ walk.i <= Len(physics.nodes)
    /\ \E bounded \in {[node EXCEPT ![physics.nodes[walk.i]] =
                           CheckCollisionWithBoundary(@, PassDeltaTime, physics)]} :
           /\ node' = bounded
           /\ walk' = [walk EXCEPT !.pc = "candidates",
                                   !.candidates = GetNearby(grid, bounded, physics.nodes[walk.i]),
                                   !.k = 1]
    /\ query' = [call |-> "getNearby", node |-> physics.nodes[walk.i], candidate |-> 0,
                 before |-> node, calls |-> run.calls]
    /\ UNCHANGED <<conn, object, physics, grid, solver, run>>

\* One iteration of the inner loop: the narrow phase on the k-th candidate
\* and, on a hit, #resolveCollisionNodeNode.
CandidateStep ==
    /\ walk.pc = "candidates"
    /\ walk.k <= Len(walk.candidates)
    /\ node' = ResolveCandidate(node, physics.nodes[walk.i], walk.candidates[walk.k], physics)
    /\ run' = [run EXCEPT !.calls = @ \o CandidateCalls(node, physics.nodes[walk.i],
                                                        walk.candidates[walk.k])]
    /\ query' = [call |-> "narrowPhase", node |-> physics.nodes[walk.i],
                 candidate |-> walk.candidates[walk.k], before |-> node, calls |-> run.calls]
    /\ walk' = [walk EXCEPT !.k = @ + 1]
    /\ UNCHANGED <<conn, object, physics, grid, solver>>

\* The inner loop is over: the outer loop goes on with the next node.
NextNodeStep ==
    /\ walk.pc = "candidates"
    /\ walk.k > Len(walk.candidates)
    /\ walk' = [walk EXCEPT !.pc = "node", !.i = @ + 1]
    /\ UNCHANGED <<node, conn, object, physics, grid, solver, query, run>>

\* The outer loop is over.  (There are no connections.)
EndPass ==
    /\ walk.pc = "node"
    /\ walk.i > Len(physics.nodes)
    /\ walk' = [walk EXCEPT !.pc = "idle"]
    /\ run' = [run EXCEPT !.passes = @ + 1]
    /\ UNCHANGED <<node, conn, object, physics, grid, solver, query>>

NextPass == BeginPass \/ BoundaryStep \/ CandidateStep \/ NextNodeStep \/ EndPass

SpecPass == InitPass /\ [][NextPass]_vars

\* Two distinct collider nodes of heap with centres at most r1 + r2 apart.
Contact(heap, a, b) ==
    /\ a # b
    /\ heap[a].collider
    /\ heap[b].collider
    /\ RLe[VDistance(heap[a].position, heap[b].position), RAdd[heap[a].radius, heap[b].radius]]

\* C16: a narrow-phase test of a node against a candidate invokes the
\* onCollision hook of each of the two with the other as argument when the two
\* are distinct collider nodes in contact, locked or not, and invokes no hook
\* otherwise.
C16_HooksOnContactOnly ==
    query.call = "narrowPhase" =>
        run.calls = query.calls \o
            (IF Contact(query.before, query.node, query.candidate)
             THEN << <<query.node, query.candidate>>, <<query.candidate, query.node>> >>
             ELSE <<>>)

\* Two locked nodes in contact were tested: both hooks were invoked and
\* neither node moved.
C16_Witness ==
    /\ query.call = "narrowPhase"
    /\ Contact(query.before, query.node, query.candidate)
    /\ query.before[query.node].locked
    /\ query.before[query.candidate].locked
    /\ node = query.before
    /\ Len(run.calls) = Len(query.calls) + 2

\* C17: the response coefficient the simulation stores and uses is the
\* constructor's argument brought into 0.5 .. 1.5: 0.5 for a smaller
\* argument, 1.5 for a larger one, the argument itself otherwise.
C17_CoefWithinHalfAndThreeHalves ==
    physics.responseCoef = Clamp(run.responseCoef, Frac[1, 2], Frac[3, 2])

\* The places <<row, col, index>> at which node id is stored in the grid.
Places(g, id) ==
    { place \in (0 .. g.rows - 1) \X (0 .. g.columns - 1) \X (1 .. Len(physics.nodes)) :
          /\ place[3] <= Len(g.cells[place[1]][place[2]])
          /\ g.cells[place[1]][place[2]][place[3]] = id }

\* C20: the grid is rebuilt once per sub-step, and at every getNearby query
\* each registered node is stored exactly once, in the bucket insert()
\* selects for the position the node has at that moment.
C20_BucketsFollowPositions ==
    /\ run.rebuilds = run.passes + (IF walk.pc = "idle" THEN 0 ELSE 1)
    /\ query.call = "getNearby" =>
           \A id \in Range(physics.nodes) :
               /\ Cardinality(Places(grid, id)) = 1
               /\ \A place \in Places(grid, id) :
                      /\ R(place[1]) = InsertRow(grid, node[id].position)
                      /\ R(place[2]) = InsertCol(grid, node[id].position)

----------------------------------------------------------------------------
\* SpecDrop: one unlocked node of radius 5 and mass 1 with the default
\* frictions, placed at (50, 0) in a 100 x 100 area with gravity (0, 9.81)
\* and one sub-step; update(0.016) is called again and again.

\* The number of update calls.
MaxDropUpdates == 24

DropDeltaTime == Frac[2, 125]

DropScene ==
    MakePhysicsNode(NewPhysics(R(100), R(100), <<Zero, Frac[981, 100]>>, One, Frac[3, 4],
                               Frac[9, 200]),
                    VecI(50, 0), R(5), One, Zero, Frac[999, 1000], Frac[3, 4], FALSE, TRUE)

InitDrop ==
    /\ node = DropScene.node
    /\ conn = DropScene.conn
    /\ object = DropScene.object
    /\ physics = DropScene.physics
    /\ grid = DropScene.grid
    /\ run = [ pc |-> "idle",
               step |-> 0,
               deltaTime |-> Zero,
               calls |-> 0,
               threw |-> FALSE,
               log |-> <<>>,
               atCall |-> [nodes |-> <<>>, connections |-> <<>>],
               outside |-> {},
               before |-> node,
               afterBoundary |-> Positions(node),
               placed |-> Positions(node),
               start |-> Positions(node) ]
    /\ solver = Unused /\ query = Unused /\ walk = Unused

\* physics.update(0.016)
DropUpdate == run.calls < MaxDropUpdates /\ BeginUpdate(DropDeltaTime)

NextDrop ==
    \/ DropUpdate
    \/ Integrate
    \/ SolveConnections
    \/ RebuildGrid
    \/ NodePass
    \/ ConnectionPass

\* The calls are made as long as the bound allows (weak fairness of the
\* call), and a call that has begun runs to its end: the phases of a call
\* are enabled one at a time, so weak fairness of each of them is that
\* run.pc is "idle" again and again.
SpecDrop ==
    /\ InitDrop
    /\ [][NextDrop]_vars
    /\ WF_vars(DropUpdate)
    /\ []<>(run.pc = "idle")

\* The node lies on the ground, within 1/100, and did not move in the last
\* step.
AtRest ==
    /\ RLe[RAbs(RSub[node[1].position[2], RSub[physics.areaHeight, node[1].radius]]), Frac[1, 100]]
    /\ node[1].position = node[1].prevPosition

\* C19: in the drop scenario every update(0.016) returns normally, the node's
\* x is 50 in every state, and from some call on the node is at rest on the
\* ground, y = areaHeight - radius = 95 within tolerance, whenever a call has
\* returned.
C19_DropComesToRest ==
    /\ [](~run.threw /\ node[1].position[1] = R(50))
    /\ <>[](run.pc = "idle" => AtRest)

\* A sub-step of the running or of the last call has just ended.  run.start
\* are the positions at its start, right before the integration.
SubStepEnded == run.step > 0 /\ ~run.threw /\ run.pc \in {"integrate", "idle"}

\* C21: at the end of every sub-step the prevPosition of each unlocked
\* registered node is the position the node had at the start of that
\* sub-step, also for a node that a boundary test corrected.
C21_PrevPositionIsSubStepStart ==
    SubStepEnded =>
        \A id \in Range(physics.nodes) :
            ~node[id].locked => node[id].prevPosition = run.start[id]

----------------------------------------------------------------------------
\* SpecEdge: #resolveCollisions for a connection or a shape and one more
\* node, the probe: the grid rebuild and the node pass in one step, then the
\* connection pass one iteration of its loops at a time.  walk is the
\* position in the loops, query the last iteration of the inner loop (the
\* nodes before it and after its ejection half), run the hook calls so far.

\* The number of sub-steps run one after the other.
MaxEdgePasses == 1

\* Two nodes with a stand-alone connection, a bar object that is no solid
\* shape, a solid triangle and a PhysicsRect with corners (10, 15) .. (30, 35).
EdgeStandalone(w) ==
    MakePhysicsConnection(
        SimNode(SimNode(w, VecI(10, 30), One, Zero, TRUE), VecI(30, 30), One, Zero, FALSE),
        1, 2, R(20), TRUE)
EdgeBar(w) ==
    NewPhysicsObject(
        FreeConnection(FreeNode(FreeNode(w, VecI(10, 30), One, TRUE), VecI(30, 30), One, FALSE),
                       1, 2, TRUE),
        <<1, 2>>, <<1>>, FALSE)
EdgeTriangle(w) ==
    NewPhysicsObject(
        FreeConnection(FreeConnection(FreeConnection(
            FreeNode(FreeNode(FreeNode(w, VecI(10, 40), One, TRUE), VecI(30, 40), One, FALSE),
                     VecI(20, 20), One, FALSE),
            1, 2, TRUE), 2, 3, TRUE), 3, 1, TRUE),
        <<1, 2, 3>>, <<1, 2, 3>>, TRUE)
EdgeRect(w) == NewPhysicsRect(w, VecI(20, 25), R(20), R(20), R(3))

EdgeShapes(w) == {EdgeStandalone(w), EdgeBar(w), EdgeTriangle(w), EdgeRect(w)}

\* Where the probe is put: inside and outside the shapes, close to and away
\* from their edges.
ProbePositions ==
    { VecI(20, 25), VecI(13, 25), VecI(20, 33), VecI(20, 28), VecI(26, 18),
      VecI(5, 25), VecI(36, 25), VecI(20, 11), VecI(20, 38), VecI(6, 15), VecI(20, 44) }

\* The probe is the last node.
Probe == Len(node)

InitEdge ==
    /\ \E position \in ProbePositions, locked \in BOOLEAN :
           \E shape \in EdgeShapes(SimPhysics(VecI(0, 0), One, Frac[3, 4])) :
               \E w \in {MakePhysicsNode(shape, position, R(4), One, Zero, One, One, locked, TRUE)} :
                   /\ node = w.node
                   /\ conn = w.conn
                   /\ object = w.object
                   /\ physics = w.physics
                   /\ grid = w.grid
    /\ walk = [pc |-> "idle", j |-> 0, candidates |-> <<>>, k |-> 0]
    /\ query = [call |-> "none", connection |-> 0, candidate |-> 0, before |-> <<>>,
                 calls |-> <<>>, ejected |-> <<>>]
    /\ run = [passes |-> 0, calls |-> <<>>]
    /\ solver = Unused

\* #resolveCollisions up to the connection loop: the grid is cleared and
\* refilled and the node pass runs.
EdgeBegin ==
    /\ walk.pc = "idle"
    /\ run.passes < MaxEdgePasses
    /\ \E r \in {InsertNodes(GridClear(grid), node, physics.nodes, 1)} :
           /\ ~r.threw
           /\ grid' = r.grid
           /\ node' = CollideNodes([heap |-> node, afterBoundary |-> Positions(node)],
                                   physics.nodes, 1, PassDeltaTime, r.grid, physics).heap
    /\ walk' = [pc |-> "connection", j |-> 1, candidates |-> <<>>, k |-> 0]
    /\ UNCHANGED <<conn, object, physics, solver, query, run>>

\* The head of the connection loop for the j-th connection:
\* grid.getNodesForConnection(connection.node1, connection.node2).
EdgeQuery ==
    /\ walk.pc = "connection"
    /\ walk.j <= Len(physics.connections)
    /\ walk' = [walk EXCEPT !.pc = "candidates",
                            !.candidates =
                                GetNodesForConnection(grid, node,
                                                      conn[physics.connections[walk.j]].node1,
                                                      conn[physics.connections[walk.j]].node2),
                            !.k = 1]
    /\ UNCHANGED <<node, conn, object, physics, grid, solver, query, run>>

\* One iteration of the inner loop of the connection pass.
EdgeCandidate ==
    /\ walk.pc = "candidates"
    /\ walk.k <= Len(walk.candidates)
    /\ node' = CollideCandidate(node, conn, object, physics.connections[walk.j],
                                walk.candidates[walk.k], physics)
    /\ run' = [run EXCEPT !.calls = @ \o CandidateEdgeCalls(node, conn, object,
                                                            physics.connections[walk.j],
                                                            walk.candidates[walk.k])]
    /\ query' = [call |-> "candidate", connection |-> physics.connections[walk.j],
                 candidate |-> walk.candidates[walk.k], before |-> node, calls |-> run.calls,
                 ejected |-> EjectCandidate(node, conn, object, physics.connections[walk.j],
                                            walk.candidates[walk.k])]
    /\ walk' = [walk EXCEPT !.k = @ + 1]
    /\ UNCHANGED <<conn, object, physics, grid, solver>>

\* The inner loop is over: the connection loop goes on.
EdgeNext ==
    /\ walk.pc = "candidates"
    /\ walk.k > Len(walk.candidates)
    /\ walk' = [walk EXCEPT !.pc = "connection", !.j = @ + 1]
    /\ UNCHANGED <<node, conn, object, physics, grid, solver, query, run>>

\* The connection loop is over.
EdgeEnd ==
    /\ walk.pc = "connection"
    /\ walk.j > Len(physics.connections)
    /\ walk' = [walk EXCEPT !.pc = "idle"]
    /\ run' = [run EXCEPT !.passes = @ + 1]
    /\ UNCHANGED <<node, conn, object, physics, grid, solver, query>>

NextEdge == EdgeBegin \/ EdgeQuery \/ EdgeCandidate \/ EdgeNext \/ EdgeEnd

SpecEdge == InitEdge /\ [][NextEdge]_vars

\* The hook calls of the last iteration of the inner loop.
LastCalls == SubSeq(run.calls, Len(query.calls) + 1, Len(run.calls))

\* C22: for a registered collider connection, with a parent object or
\* without, and a collider candidate that is none of its endpoints and lies
\* within its radius of the segment, the iteration performs the
\* node-connection resolution: #resolveCollisionNodeConnection is entered for
\* the pair, which invokes the candidate's hook with the connection.
C22_EveryColliderConnectionResolves ==
    ( /\ query.call = "candidate"
      /\ conn[query.connection].collider
      /\ query.candidate \notin {conn[query.connection].node1, conn[query.connection].node2}
      /\ query.before[query.candidate].collider
      /\ CheckCollisionNodeConnection(query.before, query.candidate, conn[query.connection]) )
    => \E i \in DOMAIN LastCalls :
           LastCalls[i] = [on |-> "node", id |-> query.candidate, with |-> query.connection]

\* The cell of a position as #getCellsForConnection computes it.
CellOf(g, position) ==
    [col |-> Floor(RDiv[position[1], g.cellSize]), row |-> Floor(RDiv[position[2], g.cellSize])]

\* Two cells that differ, by at most one column and at most one row.
Adjacent(a, b) ==
    /\ a # b
    /\ RLe[RAbs(RSub[a.col, b.col]), One]
    /\ RLe[RAbs(RSub[a.row, b.row]), One]

\* The two end cells are finite and at most StepCap steps apart.
WithinCap ==
    /\ IsFinite(walk.w.dx)
    /\ IsFinite(walk.w.dy)
    /\ RLe[RMax[walk.w.dx, walk.w.dy], R(StepCap)]

\* Node id is stored in a bucket of the 3x3 block around the cell.
StoredAround(g, id, cell) ==
    /\ RLe[RAbs(RSub[R(StoredCell(g, id)[1]), cell.row]), One]
    /\ RLe[RAbs(RSub[R(StoredCell(g, id)[2]), cell.col]), One]

\* C23: for end cells at most 1000 steps apart the path of
\* getNodesForConnection starts at the start node's cell, ends at the end
\* node's cell, has max(|dx|, |dy|) + 1 cells, each next to the one before,
\* and what is returned is, without repetition, exactly the nodes stored in a
\* bucket of the 3x3 block around a cell of the path.
C23_PathAndNeighbourhood ==
    (walk.pc = "done" /\ WithinCap) =>
        /\ walk.w.cells[1] = CellOf(grid, node[1].position)
        /\ walk.w.cells[Len(walk.w.cells)] = CellOf(grid, node[2].position)
        /\ R(Len(walk.w.cells)) = RAdd[RMax[walk.w.dx, walk.w.dy], One]
        /\ \A i \in 1 .. Len(walk.w.cells) - 1 : Adjacent(walk.w.cells[i], walk.w.cells[i + 1])
        /\ Cardinality(Range(walk.result)) = Len(walk.result)
        /\ Range(walk.result) =
               {id \in {3, 4} : \E i \in DOMAIN walk.w.cells : StoredAround(grid, id, walk.w.cells[i])}

\* A diagonal path of three cells has returned the two stored nodes, and a
\* path of StepCap + 1 cells has returned.
C23_Witness ==
    /\ walk.pc = "done"
    /\ WithinCap
    /\ \/ Len(walk.w.cells) = 3 /\ walk.w.dx = R(2) /\ walk.w.dy = One /\ Len(walk.result) = 2
       \/ Len(walk.w.cells) = StepCap + 1

\* The last iteration of the inner loop ejected its candidate: its first hook
\* call is the one of the parent object.
Ejected == query.call = "candidate" /\ LastCalls # <<>> /\ LastCalls[1].on = "object"

\* The distance of a position from connection cid of heap.
DistanceToEdge(heap, position, cid) ==
    VDistance(position, ClosestPointOnConnection(position, heap[conn[cid].node1].position,
                                                 heap[conn[cid].node2].position))

\* Two positions that agree up to the rounding of a few operations.
VApproxEq(a, b) == ApproxEq(a[1], b[1]) /\ ApproxEq(a[2], b[2])

\* p moved past c by a tenth of its distance from c.
PastEdge(p, c) == VSub(c, VMult(VSub(p, c), Frac[1, 10]))

\* C24: an ejection fires only for the closest collider edge of a solid
\* parent shape, for an unlocked candidate on which the point-in-shape test
\* is true; it moves the candidate from p to c - 0.1 * (p - c), c the closest
\* point of that edge, and right after it the point-in-shape test on the
\* candidate is false (the shapes are convex).
C24_EjectionLeavesShape ==
    Ejected =>
        /\ conn[query.connection].parent # NoParent
        /\ object[conn[query.connection].parent].solidShape
        /\ conn[query.connection].collider
        /\ ~query.before[query.candidate].locked
        /\ CheckCollisionNodeShape(query.before, conn, query.before[query.candidate],
                                   object[conn[query.connection].parent])
        /\ \A other \in Range(object[conn[query.connection].parent].connections) :
               conn[other].collider =>
                   RLe[DistanceToEdge(query.before, query.before[query.candidate].position,
                                      query.connection),
                       DistanceToEdge(query.before, query.before[query.candidate].position, other)]
        /\ VApproxEq(query.ejected[query.candidate].position,
                     PastEdge(query.before[query.candidate].position,
                              ClosestPointOnConnection(
                                  query.before[query.candidate].position,
                                  query.before[conn[query.connection].node1].position,
                                  query.before[conn[query.connection].node2].position)))
        /\ ~CheckCollisionNodeShape(query.ejected, conn, query.ejected[query.candidate],
                                    object[conn[query.connection].parent])

\* The probe was ejected from the PhysicsRect and is somewhere else now.
C24_Witness ==
    /\ Ejected
    /\ Len(object[conn[query.connection].parent].connections) = 6
    /\ query.candidate = Probe
    /\ query.ejected[Probe].position # query.before[Probe].position

IsColliderConnection(cid) == conn[cid].collider

\* The shape without its connections that are not colliders.
ColliderPart(shape) == [shape EXCEPT !.connections = SelectSeq(@, IsColliderConnection)]

\* The object is a PhysicsRect: four corners, four sides and two diagonals.
IsRect(shape) == Len(shape.nodes) = 4 /\ Len(shape.connections) = 6

\* The corners of the rectangle are where an axis-parallel rectangle has them
\* (topLeft, topRight, bottomLeft, bottomRight).
Undeformed(shape) ==
    /\ node[shape.nodes[1]].position[1] = node[shape.nodes[3]].position[1]
    /\ node[shape.nodes[2]].position[1] = node[shape.nodes[4]].position[1]
    /\ node[shape.nodes[1]].position[2] = node[shape.nodes[2]].position[2]
    /\ node[shape.nodes[3]].position[2] = node[shape.nodes[4]].position[2]
    /\ RLt[node[shape.nodes[1]].position[1], node[shape.nodes[2]].position[1]]
    /\ RLt[node[shape.nodes[1]].position[2], node[shape.nodes[3]].position[2]]

StrictlyInside(position, shape) ==
    /\ RLt[node[shape.nodes[1]].position[1], position[1]]
    /\ RLt[position[1], node[shape.nodes[4]].position[1]]
    /\ RLt[node[shape.nodes[1]].position[2], position[2]]
    /\ RLt[position[2], node[shape.nodes[4]].position[2]]

StrictlyOutside(position, shape) ==
    \/ RLt[position[1], node[shape.nodes[1]].position[1]]
    \/ RLt[node[shape.nodes[4]].position[1], position[1]]
    \/ RLt[position[2], node[shape.nodes[1]].position[2]]
    \/ RLt[node[shape.nodes[4]].position[2], position[2]]

\* The braces of the shape that cross the ray going right from the probe.
BracesCrossingRay(shape) ==
    {i \in DOMAIN shape.connections :
        /\ ~conn[shape.connections[i]].collider
        /\ CrossesRay(node, [c \in DOMAIN conn |-> [conn[c] EXCEPT !.collider = TRUE]],
                      node[Probe], shape, i)}

\* C25: the point-in-shape test is false for a locked node; the connections
\* that are not colliders do not change it; and for an undeformed PhysicsRect
\* it is true for an unlocked node strictly inside the rectangle and false for
\* a node strictly outside.
C25_PointInShape ==
    \A oid \in DOMAIN object :
        /\ node[Probe].locked => ~CheckCollisionNodeShape(node, conn, node[Probe], object[oid])
        /\ CheckCollisionNodeShape(node, conn, node[Probe], object[oid])
               = CheckCollisionNodeShape(node, conn, node[Probe], ColliderPart(object[oid]))
        /\ (IsRect(object[oid]) /\ Undeformed(object[oid])) =>
               /\ (~node[Probe].locked /\ StrictlyInside(node[Probe].position, object[oid]))
                      => CheckCollisionNodeShape(node, conn, node[Probe], object[oid])
               /\ StrictlyOutside(node[Probe].position, object[oid])
                      => ~CheckCollisionNodeShape(node, conn, node[Probe], object[oid])

\* During a pass, the unlocked probe is strictly inside the undeformed
\* PhysicsRect, to the left of one diagonal only, and is reported inside.
C25_Witness ==
    /\ walk.pc # "idle"
    /\ \E oid \in DOMAIN object :
           /\ IsRect(object[oid]) /\ Undeformed(object[oid])
           /\ ~node[Probe].locked
           /\ StrictlyInside(node[Probe].position, object[oid])
           /\ Cardinality(BracesCrossingRay(object[oid])) = 1
           /\ CheckCollisionNodeShape(node, conn, node[Probe], object[oid])

\* ---------------------------------------------------------------------------
\* SpecPolygon: the PhysicsPolygon constructor called on a simulation, with
\* corner counts inside and outside 3 .. 10.  query is the last call, run
\* counts the polygons made; the script that makes them ends with the first
\* constructor that raises.
MaxPolygons == 2
PolygonCorners == 2 .. 11
PolygonPositions == {VecI(50, 50)}
PolygonRadii == {R(20)}
PolygonNodeRadii == {R(3)}

InitPolygon ==
    /\ \E w \in {SimPhysics(VecI(0, 0), One, Frac[3, 4])} :
           /\ node = w.node
           /\ conn = w.conn
           /\ object = w.object
           /\ physics = w.physics
           /\ grid = w.grid
    /\ query = [call |-> "none", corners |-> 0, object |-> 0]
    /\ run = [polygons |-> 0]
    /\ solver = Unused
    /\ walk = Unused

\* new PhysicsPolygon(...) with a corner count the constructor accepts.
NewPolygonStep(position, outerRadius, corners, nodeRadius, collider) ==
    /\ run.polygons < MaxPolygons
    /\ query.call # "threw"
    /\ corners >= 3 /\ corners <= 10
    /\ \E w \in {NewPhysicsPolygon([node |-> node, conn |-> conn, object |-> object,
                                    physics |-> physics, grid |-> grid],
                                   position, outerRadius, corners, nodeRadius, collider)} :
           /\ node' = w.node
           /\ conn' = w.conn
           /\ object' = w.object
           /\ physics' = w.physics
           /\ grid' = w.grid
    /\ query' = [call |-> "polygon", corners |-> corners, object |-> Len(object) + 1]
    /\ run' = [run EXCEPT !.polygons = @ + 1]
    /\ UNCHANGED <<solver, walk>>

\* new PhysicsPolygon(...) with a corner count it rejects: 'The number of
\* corners must be a number between 3 and 10.'
RejectPolygonStep(corners) ==
    /\ run.polygons < MaxPolygons
    /\ query.call # "threw"
    /\ corners < 3 \/ corners > 10
    /\ query' = [call |-> "threw", corners |-> corners, object |-> 0]
    /\ UNCHANGED <<node, conn, object, physics, grid, solver, walk, run>>

NextPolygon ==
    \/ \E position \in PolygonPositions, outerRadius \in PolygonRadii, corners \in PolygonCorners,
          nodeRadius \in PolygonNodeRadii, collider \in BOOLEAN :
           NewPolygonStep(position, outerRadius, corners, nodeRadius, collider)
    \/ \E corners \in PolygonCorners : RejectPolygonStep(corners)

SpecPolygon == InitPolygon /\ [][NextPolygon]_vars

\* How often x occurs in seq.
Occurrences(seq, x) == Cardinality({i \in DOMAIN seq : seq[i] = x})

\* The connections of the shape that join its a-th and b-th node.
Joining(shape, a, b) ==
    {i \in DOMAIN shape.connections :
        {conn[shape.connections[i]].node1, conn[shape.connections[i]].node2}
            = {shape.nodes[a], shape.nodes[b]}}

\* C26: a PhysicsPolygon of N corners (3 <= N <= 10) registers N nodes and
\* N * (N - 1) / 2 connections, one for every unordered pair of its nodes;
\* the colliders among them are the N that join cyclically consecutive nodes,
\* the closing edge between node N - 1 and node 0 among them.
C26_PolygonConnections ==
    query.call = "polygon" =>
        /\ Len(object[query.object].nodes) = query.corners
        /\ Cardinality(Range(object[query.object].nodes)) = query.corners
        /\ \A id \in Range(object[query.object].nodes) : Occurrences(physics.nodes, id) = 1
        /\ Len(object[query.object].connections) = (query.corners * (query.corners - 1)) \div 2
        /\ \A cid \in Range(object[query.object].connections) :
               Occurrences(physics.connections, cid) = 1
        /\ \A a, b \in 1 .. query.corners :
               a < b => Cardinality(Joining(object[query.object], a, b)) = 1
        /\ Cardinality({i \in DOMAIN object[query.object].connections :
                           conn[object[query.object].connections[i]].collider}) = query.corners
        /\ \A a, b \in 1 .. query.corners :
               a < b => \A i \in Joining(object[query.object], a, b) :
                            conn[object[query.object].connections[i]].collider
                                <=> (b = a + 1 \/ (a = 1 /\ b = query.corners))

\* A polygon of more than three corners was made: it has braces, and its
\* closing edge is a collider.
C26_Witness ==
    /\ query.call = "polygon"
    /\ query.corners > 3
    /\ \E i \in Joining(object[query.object], 1, query.corners) :
           conn[object[query.object].connections[i]].collider
    /\ \E i \in Joining(object[query.object], 1, 3) :
           ~conn[object[query.object].connections[i]].collider

\* Every registered node is unlocked and has a positive mass.
AllUnlocked == \A id \in Range(physics.nodes) : ~node[id].locked /\ RGt[node[id].mass, Zero]

\* C27: update(deltaTime) with a finite deltaTime >= 0, deltaTime = 0
\* included, on unlocked nodes does not raise.
C27_UpdateReturns ==
    (run.calls > 0 /\ IsFinite(run.deltaTime) /\ RGe[run.deltaTime, Zero] /\ AllUnlocked)
        => ~run.threw

\* The registered connections with an end that is not a registered node.
Dangling ==
    {cid \in Range(physics.connections) :
        conn[cid].node1 \notin Range(physics.nodes) \/ conn[cid].node2 \notin Range(physics.nodes)}

\* C28: after any sequence of add and remove calls both ends of every
\* registered connection are registered nodes (so that #resolveConnections
\* moves registered nodes only).
C28_EndpointsRegistered == Dangling = {}

\* How many times the pass that began last has resolved a against b: the
\* calls of the hook of a with b, of which every resolution makes one.
Resolutions(a, b) ==
    Cardinality({i \in run.start + 1 .. Len(run.calls) : run.calls[i] = <<a, b>>})

\* C29: in one pass, the node-node resolution with its pair of hook calls is
\* applied at most once to each pair of nodes.
C29_OncePerPair ==
    \A a, b \in Range(physics.nodes) : a # b => Resolutions(a, b) <= 1

\* ---------------------------------------------------------------------------
\* SpecTimer: the Physics class that drives itself with a timer.  physics is
\* the object (#intervalID, #lastUpdate, #maxTimeStep, #frameRate), run the
\* environment: the clock in ms, the active interval timers and animation
\* frame requests of the page, the number of calls and ticks, how often the
\* objects were updated, and whether the simulation is running as start() and
\* stop() report it.  query is the last call or tick.
MaxTimerCalls == 3
MaxTicks == 3
RefreshRates == {R(60), R(10)}
TickGaps == {R(10), R(17), R(120)}

\* The values of #intervalID: undefined before the first start(), the
\* handle setInterval returned, or null.
UndefinedID == [kind |-> "undefined", handle |-> 0]
NullID == [kind |-> "null", handle |-> 0]
Handle(h) == [kind |-> "handle", handle |-> h]

\* start(): raises when #intervalID !== undefined, otherwise setInterval.
StartRaises(p) == p.intervalID # UndefinedID
Start(p, env) ==
    [ physics |-> [p EXCEPT !.intervalID = Handle(env.nextHandle)],
      run |-> [env EXCEPT !.timers = @ \cup {env.nextHandle}, !.nextHandle = @ + 1] ]

\* stop(): raises when #intervalID === undefined, otherwise
\* cancelAnimationFrame(#intervalID), which removes the animation frame
\* request with that handle, and #intervalID = null.
StopRaises(p) == p.intervalID = UndefinedID
Stop(p, env) ==
    [ physics |-> [p EXCEPT !.intervalID = NullID],
      run |-> [env EXCEPT !.frames = @ \ {p.intervalID.handle}] ]

\* The time step of the timer callback at time now: the time since the last
\* update in seconds, at most the frame time.
TimeStep(p, now) ==
    RMin[RDiv[RSub[now, p.lastUpdate], R(1000)], RDiv[p.frameRate, R(1000)]]

\* #update(dt) does nothing when dt > #maxTimeStep and updates the objects
\* otherwise.
Updates(p, dt) == ~RGt[dt, p.maxTimeStep]

\* new Physics(canvasWidth, canvasHeight, refreshRate) at time 0: the fields
\* are set and start() is called.
NewTimerPhysics(refreshRate, env) ==
    Start([ intervalID |-> UndefinedID, lastUpdate |-> Zero, maxTimeStep |-> Frac[1, 20],
            frameRate |-> RDiv[R(1000), refreshRate] ], env)

InitTimer ==
    /\ \E refreshRate \in RefreshRates :
           \E r \in {NewTimerPhysics(refreshRate,
                                     [ now |-> Zero, timers |-> {}, frames |-> {}, nextHandle |-> 1,
                                       calls |-> 0, ticks |-> 0, updates |-> 0, running |-> TRUE ])} :
               physics = r.physics /\ run = r.run
    /\ query = [call |-> "none", raised |-> FALSE, wasRunning |-> FALSE]
    /\ node = Unused /\ conn = Unused /\ object = Unused /\ grid = Unused
    /\ solver = Unused /\ walk = Unused

\* physics.start()
StartStep ==
    /\ run.calls < MaxTimerCalls
    /\ \E r \in {IF StartRaises(physics) THEN [physics |-> physics, run |-> run]
                 ELSE Start(physics, run)} :
           /\ physics' = r.physics
           /\ run' = [r.run EXCEPT !.calls = @ + 1,
                                   !.running = IF StartRaises(physics) THEN @ ELSE TRUE]
    /\ query' = [call |-> "start", raised |-> StartRaises(physics), wasRunning |-> run.running]
    /\ UNCHANGED <<node, conn, object, grid, solver, walk>>

\* physics.stop()
StopStep ==
    /\ run.calls < MaxTimerCalls
    /\ \E r \in {IF StopRaises(physics) THEN [physics |-> physics, run |-> run]
                 ELSE Stop(physics, run)} :
           /\ physics' = r.physics
           /\ run' = [r.run EXCEPT !.calls = @ + 1,
                                   !.running = IF StopRaises(physics) THEN @ ELSE FALSE]
    /\ query' = [call |-> "stop", raised |-> StopRaises(physics), wasRunning |-> run.running]
    /\ UNCHANGED <<node, conn, object, grid, solver, walk>>

\* The callback of an active interval timer runs, gap ms after the last
\* step of the clock.
TickStep(gap) ==
    /\ run.ticks < MaxTicks
    /\ run.timers # {}
    /\ \E now \in {RAdd[run.now, gap]} :
           /\ physics' = [physics EXCEPT !.lastUpdate = now]
           /\ run' = [run EXCEPT !.now = now,
                                 !.ticks = @ + 1,
                                 !.updates = IF Updates(physics, TimeStep(physics, now))
                                             THEN @ + 1 ELSE @]
    /\ query' = [call |-> "tick", raised |-> FALSE, wasRunning |-> run.running]
    /\ UNCHANGED <<node, conn, object, grid, solver, walk>>

NextTimer ==
    \/ StartStep
    \/ StopStep
    \/ \E gap \in TickGaps : TickStep(gap)

SpecTimer == InitTimer /\ [][NextTimer]_vars

\* C30: the simulation is running after construction; start() raises exactly
\* when it is running and stop() exactly when it is stopped, and a call that
\* does not raise leaves it running, respectively stopped, with its timer
\* active, respectively cancelled; no tick runs while it is stopped.
C30_TwoStateLifecycle ==
    /\ query.call = "none" => run.running /\ run.timers # {}
    /\ query.call = "start" =>
           /\ query.raised <=> query.wasRunning
           /\ ~query.raised => run.timers # {}
    /\ query.call = "stop" =>
           /\ query.raised <=> ~query.wasRunning
           /\ ~query.raised => run.timers = {}
    /\ query.call = "tick" => query.wasRunning

====
